---------------------------- MODULE Spec2Model ----------------------------
(***************************************************************************)
(* SandoSeer: swap stream -> bounded queue -> evaluate -> score -> decide  *)
(* -> simulate -> execute -> log.                                          *)
(*                                                                         *)
(* Three tasks run on the tokio runtime (src/src/main.rs run_sandoseer):   *)
(*   - the Ctrl+C task (lines 119-125),                                    *)
(*   - the scanner task, MempoolScanner::start_scanning driving the        *)
(*     stream built by ListenEngine::stream_dex_swaps (lines 128-132),     *)
(*   - the consumer loop (lines 138-169) which awaits process_transaction  *)
(*     inline.                                                             *)
(* Every action below is the code between two await points of one task.    *)
(*                                                                         *)
(* f64 values are fixed-point integers: scores in hundredths, slippage in  *)
(* basis points (1e-4), token amounts in hundredths.                       *)
(***************************************************************************)
EXTENDS Integers, Sequences, FiniteSets, TLC

\* ------------------------------------------------------------------ bounds

\* Consecutive connect/subscribe failures explored before an attempt must succeed.
MaxFails == 2

\* Decoded swaps the feed delivers in one run of the whole pipeline (Spec).
MaxSwaps == 3

\* Transactions the consumer dequeues in one run against an unbounded feed
\* (SpecBackpressure).
MaxReceived == 2

\* log_trade calls that return Ok in one run of the logger calls
MaxLogged == 3

\* --------------------------------------------------------- program constants

\* mpsc::channel::<SwapTransaction>(100)
ChannelCapacity == 100

\* mpsc::channel::<()>(1)
ShutdownCapacity == 1

\* Config::default: min_opportunity_score 0.8 (hundredths)
min_opportunity_score == 80

\* Config::default: max_risk_level
max_risk_level == 2

\* DecisionMaker::new(0.5), in the unit of profitability (1e-6)
min_profitability == 500000

\* ------------------------------------------------------------------ options

None == [tag |-> "None"]

Some(x) == [tag |-> "Some", val |-> x]

IsSome(o) == o.tag = "Some"

\* ------------------------------------------------------------ stream items

\* swap_info of the decoded slot transactions of the feed:
\*   2000 USDC (6 decimals) for 1.9 SOL (9 decimals), 2.0 SOL expected;
\*   2000 BONK (5 decimals) for 1.95 USDC, 2.0 USDC expected.
UsdcSolSwap ==
    [ token_in     |-> [symbol |-> Some("USDC"), mint |-> "EPjF", decimals |-> 6],
      token_out    |-> [symbol |-> Some("SOL"),  mint |-> "So11", decimals |-> 9],
      amount_in    |-> 2000000000,
      amount_out   |-> 1900000000,
      expected_out |-> Some(2000000000) ]

BonkUsdcSwap ==
    [ token_in     |-> [symbol |-> Some("BONK"), mint |-> "DezX", decimals |-> 5],
      token_out    |-> [symbol |-> Some("USDC"), mint |-> "EPjF", decimals |-> 6],
      amount_in    |-> 200000000,
      amount_out   |-> 1950000,
      expected_out |-> Some(2000000) ]

DecodedSwaps == {UsdcSolSwap, BonkUsdcSwap}

\* What a slot notification is turned into.  The code yields the placeholder
\* with swap_info: None; steps 1-3 of the comment (get the slot's
\* transactions, filter, parse swap information) yield a decoded swap.
SlotSwapInfo == {None} \cup {Some(s) : s \in DecodedSwaps}

\* The slot item carrying a decoded swap whatever the closure was given.
SlotItemDecoded(info) ==
    [signature |-> "placeholder", dex |-> Some("Jupiter"), swap_info |-> Some(UsdcSolSwap)]

\* The Transaction values stream_dex_swaps yields.
SlotItem(info) ==
    [signature |-> "placeholder", dex |-> Some("Jupiter"), swap_info |-> info]

ReconnectingItem ==
    [signature |-> "reconnecting", dex |-> None, swap_info |-> None]

SubscriptionErrorItem ==
    [signature |-> "subscription_error", dex |-> None, swap_info |-> None]

ConnectionErrorItem ==
    [signature |-> "connection_error", dex |-> None, swap_info |-> None]

\* The closure returning None after a failure: the stream ends.
BackoffItemEndsStream(cause) == None

\* The item the unfold closure yields after its backoff sleep, by cause.
BackoffItem(cause) ==
    CASE cause = "connection_error"   -> Some(ConnectionErrorItem)
      [] cause = "subscription_error" -> Some(SubscriptionErrorItem)
      [] OTHER                        -> Some(ReconnectingItem)

\* ------------------------------------------------- scanner: normalisation

Pow10(n) == IF n = 0 THEN 1 ELSE IF n = 1 THEN 10 ELSE IF n = 2 THEN 100
            ELSE IF n = 3 THEN 1000 ELSE IF n = 4 THEN 10000
            ELSE IF n = 5 THEN 100000 ELSE IF n = 6 THEN 1000000
            ELSE IF n = 7 THEN 10000000 ELSE IF n = 8 THEN 100000000
            ELSE 1000000000

\* raw as f64 / 10f64.powi(decimals), in hundredths
ToAmount(raw, decimals) ==
    IF decimals >= 2 THEN raw \div Pow10(decimals - 2) ELSE raw * Pow10(2 - decimals)

Abs(x) == IF x < 0 THEN -x ELSE x

\* The slippage taken as expected minus actual, without .abs().
ScannerSlippageSigned(swap_info, amount_out) ==
    IF IsSome(swap_info.expected_out)
    THEN LET expected_amount ==
                 ToAmount(swap_info.expected_out.val, swap_info.token_out.decimals)
         IN  IF expected_amount > 0
             THEN ((expected_amount - amount_out) * 10000) \div expected_amount
             ELSE 100
    ELSE 100

\* The slippage without the test of expected_amount: a zero hint counts as no
\* slippage.
calculate_slippage_zero_hint(expected, actual) ==
    IF IsSome(expected)
    THEN IF expected.val > 0
         THEN (Abs(expected.val - actual) * 10000) \div expected.val
         ELSE 0
    ELSE 100

\* utils::calculate_slippage on raw amounts, in basis points
calculate_slippage(expected, actual) ==
    IF IsSome(expected) /\ expected.val > 0
    THEN (Abs(expected.val - actual) * 10000) \div expected.val
    ELSE 100

\* slippage in basis points
ScannerSlippage(swap_info, amount_out) ==
    IF IsSome(swap_info.expected_out)
    THEN LET expected_amount ==
                 ToAmount(swap_info.expected_out.val, swap_info.token_out.decimals)
         IN  IF expected_amount > 0
             THEN (Abs(expected_amount - amount_out) * 10000) \div expected_amount
             ELSE 100
    ELSE 100

\* MempoolScanner::process_transaction: Ok(None) for an item without
\* swap_info, Ok(Some(swap_tx)) otherwise; it has no Err return.
ScannerProcess(tx) ==
    IF ~IsSome(tx.swap_info)
    THEN None
    ELSE LET swap_info  == tx.swap_info.val
             amount_out == ToAmount(swap_info.amount_out, swap_info.token_out.decimals)
         IN  Some([ token_in  |-> IF IsSome(swap_info.token_in.symbol)
                                   THEN swap_info.token_in.symbol.val
                                   ELSE swap_info.token_in.mint,
                    token_out |-> IF IsSome(swap_info.token_out.symbol)
                                   THEN swap_info.token_out.symbol.val
                                   ELSE swap_info.token_out.mint,
                    amount_in |-> ToAmount(swap_info.amount_in, swap_info.token_in.decimals),
                    estimated_amount_out |-> amount_out,
                    slippage  |-> ScannerSlippage(swap_info, amount_out),
                    pool_name |-> IF IsSome(tx.dex) THEN tx.dex.val ELSE "Unknown" ])

\* ------------------------------------------------------- scoring oracle

Min(a, b) == IF a < b THEN a ELSE b

\* rand::random::<f64>() * 0.2, in hundredths
RandomFactors == {0, 10, 19}

\* simulate_agent_decision with >= in the tests of its score.
simulate_agent_decision_inclusive(transaction, random_factor) ==
    LET size_factor     == (Min(transaction.amount_in, 10000) * 40) \div 10000
        slippage_factor == (Min(transaction.slippage, 100) * 30) \div 100
        pool_factor     == CASE transaction.pool_name = "Orca"    -> 20
                             [] transaction.pool_name = "Raydium" -> 15
                             [] OTHER                             -> 10
        pair_factor     ==
            IF transaction.token_in = "SOL" /\ transaction.token_out = "USDC" THEN 20
            ELSE IF transaction.token_in = "USDC" /\ transaction.token_out = "BONK" THEN 30
            ELSE 10
        final_score       == size_factor + slippage_factor + pool_factor + pair_factor
        opportunity_score == Min(final_score + random_factor, 100)
    IN  [ opportunity_score |-> opportunity_score,
          action     |-> IF opportunity_score >= 70 THEN "enter" ELSE "skip",
          risk_level |-> IF opportunity_score >= 85 THEN "high"
                         ELSE IF opportunity_score >= 75 THEN "medium"
                         ELSE "low" ]

\* RigAgent::simulate_agent_decision, scores in hundredths.  The quotients are
\* exact on the transactions evaluated here: amounts below 100 are multiples
\* of 2.5 and slippages below 1% multiples of 0.1%.
simulate_agent_decision(transaction, random_factor) ==
    LET size_factor     == (Min(transaction.amount_in, 10000) * 40) \div 10000
        slippage_factor == (Min(transaction.slippage, 100) * 30) \div 100
        pool_factor     == CASE transaction.pool_name = "Orca"    -> 20
                             [] transaction.pool_name = "Raydium" -> 15
                             [] OTHER                             -> 10
        pair_factor     ==
            IF transaction.token_in = "SOL" /\ transaction.token_out = "USDC" THEN 20
            ELSE IF transaction.token_in = "USDC" /\ transaction.token_out = "BONK" THEN 30
            ELSE 10
        final_score       == size_factor + slippage_factor + pool_factor + pair_factor
        opportunity_score == Min(final_score + random_factor, 100)
    IN  [ opportunity_score |-> opportunity_score,
          action     |-> IF opportunity_score > 70 THEN "enter" ELSE "skip",
          risk_level |-> IF opportunity_score > 85 THEN "high"
                         ELSE IF opportunity_score > 75 THEN "medium"
                         ELSE "low" ]

\* Responses of the remote agent that parse as an AgentDecision.
RemoteDecisions ==
    { [opportunity_score |-> 90, action |-> "enter", risk_level |-> "low"],
      [opportunity_score |-> 90, action |-> "enter", risk_level |-> "high"],
      [opportunity_score |-> 75, action |-> "enter", risk_level |-> "low"],
      [opportunity_score |-> 90, action |-> "skip",  risk_level |-> "low"],
      [opportunity_score |-> 85, action |-> "enter", risk_level |-> "extreme"] }

\* agent.prompt(..): an error, a response that does not parse, or a decision.
RemoteOutcomes ==
    { [kind |-> "error"], [kind |-> "malformed"] }
        \cup { [kind |-> "decision", decision |-> d] : d \in RemoteDecisions }

Ok(x) == [tag |-> "Ok", val |-> x]

Err(e) == [tag |-> "Err", err |-> e]

IsOk(r) == r.tag = "Ok"

\* RigAgent::format_context: the sections of the context, in order
format_context(transaction, market_data, sentiment_data) ==
    <<"Transaction Details">>
        \o (IF IsSome(market_data) THEN <<"Market Data">> ELSE << >>)
        \o (IF IsSome(sentiment_data) THEN <<"Sentiment Data">> ELSE << >>)

\* What one call of evaluate_opportunity was given, and the context it sent
\* to the remote agent (None when no agent is configured).
OracleCall(agent_configured, transaction, market_data, sentiment_data) ==
    [ market_data    |-> market_data,
      sentiment_data |-> sentiment_data,
      context        |-> IF agent_configured
                         THEN Some(format_context(transaction, market_data, sentiment_data))
                         ELSE None ]

\* evaluate_opportunity with the parse error propagated (from_str(..)?).
evaluate_opportunity_parse_error(agent_configured, transaction, remote, random_factor) ==
    IF ~agent_configured
    THEN Ok(simulate_agent_decision(transaction, random_factor))
    ELSE IF remote.kind = "error"
    THEN Err("prompt")
    ELSE IF remote.kind = "malformed"
    THEN Err("parse")
    ELSE Ok(remote.decision)

\* RigAgent::evaluate_opportunity
evaluate_opportunity(agent_configured, transaction, remote, random_factor) ==
    IF ~agent_configured
    THEN Ok(simulate_agent_decision(transaction, random_factor))
    ELSE IF remote.kind = "error"
    THEN Err("prompt")
    ELSE IF remote.kind = "malformed"
    THEN Ok(simulate_agent_decision(transaction, random_factor))
    ELSE Ok(remote.decision)

\* -------------------------------------------------------------- evaluator

\* OpportunityScorer::new
OpportunityScorer_new(min_score, max_risk) ==
    [min_opportunity_score |-> min_score, max_risk_level |-> max_risk]

\* transaction.slippage * transaction.amount_in * 0.01: slippage (1e-4) times
\* amount_in (1e-2) times 0.01, in units of 1e-6 (the digits below are cut;
\* the product is taken in two parts to stay within 32 bits).
Profitability(transaction) ==
    transaction.slippage * (transaction.amount_in \div 100)
        + (transaction.slippage * (transaction.amount_in % 100)) \div 100

\* calculate_score raising the confidence when a market snapshot is given.
calculate_score_with_market(self, transaction, agent_decision, market_data) ==
    LET base_score == agent_decision.opportunity_score
    IN  [ mev_score  |-> base_score,
          confidence |-> IF IsSome(market_data) /\ base_score > 70 THEN 95
                         ELSE IF base_score > 90 THEN 95
                         ELSE IF base_score > 80 THEN 85
                         ELSE IF base_score > 70 THEN 75
                         ELSE 50,
          profitability |-> Profitability(transaction),
          risk_level |-> CASE agent_decision.risk_level = "low"    -> 1
                           [] agent_decision.risk_level = "medium" -> 2
                           [] agent_decision.risk_level = "high"   -> 3
                           [] OTHER                                -> 0 ]

\* calculate_score with >= in its confidence steps and unknown risk strings
\* taken as the highest risk.
calculate_score_inclusive(self, transaction, agent_decision, market_data) ==
    LET base_score == agent_decision.opportunity_score
    IN  [ mev_score  |-> base_score,
          confidence |-> IF base_score >= 90 THEN 95
                         ELSE IF base_score >= 80 THEN 85
                         ELSE IF base_score >= 70 THEN 75
                         ELSE 50,
          profitability |-> Profitability(transaction),
          risk_level |-> CASE agent_decision.risk_level = "low"    -> 1
                           [] agent_decision.risk_level = "medium" -> 2
                           [] agent_decision.risk_level = "high"   -> 3
                           [] OTHER                                -> 3 ]

\* OpportunityScorer::calculate_score; profitability in units of 1e-6
calculate_score(self, transaction, agent_decision, market_data) ==
    LET base_score == agent_decision.opportunity_score
    IN  [ mev_score  |-> base_score,
          confidence |-> IF base_score > 90 THEN 95
                         ELSE IF base_score > 80 THEN 85
                         ELSE IF base_score > 70 THEN 75
                         ELSE 50,
          profitability |-> Profitability(transaction),
          risk_level |-> CASE agent_decision.risk_level = "low"    -> 1
                           [] agent_decision.risk_level = "medium" -> 2
                           [] agent_decision.risk_level = "high"   -> 3
                           [] OTHER                                -> 0 ]

\* should_execute without its risk conjunct.
should_execute_score_only(self, score) ==
    score.mev_score >= self.min_opportunity_score

\* should_execute against the default thresholds instead of the configured ones.
should_execute_hardcoded(self, score) ==
    /\ score.mev_score >= 80
    /\ score.risk_level <= 2

\* should_execute with the score comparison turned round.
should_execute_reversed(self, score) ==
    /\ score.mev_score <= self.min_opportunity_score
    /\ score.risk_level <= self.max_risk_level

\* OpportunityScorer::should_execute
should_execute(self, score) ==
    /\ score.mev_score >= self.min_opportunity_score
    /\ score.risk_level <= self.max_risk_level

\* DecisionMaker::new
DecisionMaker_new(min_profit) == [min_profitability |-> min_profit]

\* determine_strategy testing the snipe rule before the sandwich rule.
determine_strategy_snipe_first(transaction, score) ==
    IF score.mev_score > 85
    THEN "snipe"
    ELSE IF transaction.slippage > 300 /\ transaction.amount_in > 500
    THEN "sandwich"
    ELSE "arbitrage"

\* determine_strategy naming the front leg of the sandwich.
determine_strategy_front_leg(transaction, score) ==
    IF transaction.slippage > 300 /\ transaction.amount_in > 500
    THEN "sandwich_front"
    ELSE IF score.mev_score > 85
    THEN "snipe"
    ELSE "arbitrage"

\* DecisionMaker::determine_strategy
determine_strategy(transaction, score) ==
    IF transaction.slippage > 300 /\ transaction.amount_in > 500
    THEN "sandwich"
    ELSE IF score.mev_score > 85
    THEN "snipe"
    ELSE "arbitrage"

\* estimated_amount_out * (1.0 - slippage), without the 1.5 buffer.
ExpectedMinOutNoBuffer(transaction) ==
    transaction.estimated_amount_out * (20000 - 2 * transaction.slippage)

\* estimated_amount_out * (1.0 - slippage * 1.5), as a numerator over 2000000
\* (hundredths times 20000)
ExpectedMinOut(transaction) ==
    transaction.estimated_amount_out * (20000 - 3 * transaction.slippage)

\* make_decision rejecting a profitability equal to the minimum and accepting
\* the action in any letter case.
make_decision_loose(self, transaction, score, agent_decision) ==
    IF agent_decision.action \notin {"enter", "Enter"}
    THEN None
    ELSE IF score.profitability <= self.min_profitability
    THEN None
    ELSE Some([ token_in         |-> transaction.token_in,
                token_out        |-> transaction.token_out,
                amount_in        |-> transaction.amount_in,
                expected_min_out |-> ExpectedMinOut(transaction),
                confidence_score |-> score.confidence,
                risk_level       |-> score.risk_level,
                strategy         |-> determine_strategy(transaction, score) ])

\* DecisionMaker::make_decision
make_decision(self, transaction, score, agent_decision) ==
    IF agent_decision.action # "enter"
    THEN None
    ELSE IF score.profitability < self.min_profitability
    THEN None
    ELSE Some([ token_in         |-> transaction.token_in,
                token_out        |-> transaction.token_out,
                amount_in        |-> transaction.amount_in,
                expected_min_out |-> ExpectedMinOut(transaction),
                confidence_score |-> score.confidence,
                risk_level       |-> score.risk_level,
                strategy         |-> determine_strategy(transaction, score) ])

\* ---------------------------------------------------------- risk analyzer

\* Ord::clamp
Clamp(x, lo, hi) == IF x < lo THEN lo ELSE IF x > hi THEN hi ELSE x

\* RiskAnalyzer::new
RiskAnalyzer_new(risk_tolerance) == [risk_tolerance |-> Clamp(risk_tolerance, 1, 3)]

\* Whether the build checks integer arithmetic for overflow: the dev profile
\* does, the release profile does not.
OverflowChecks == BOOLEAN

\* risk_level += d or risk_level -= d on the u8 risk_level: None is the panic
\* "attempt to add/subtract with overflow" of a build that checks; a build
\* that does not check wraps modulo 2^8.
U8Adjust(risk_level, d, overflow_checks) ==
    IF risk_level = None \/ d = 0
    THEN risk_level
    ELSE IF risk_level.val + d \in 0..255
    THEN Some(risk_level.val + d)
    ELSE IF overflow_checks
    THEN None
    ELSE Some((risk_level.val + d) % 256)

\* amount_in > 100.0 raises, amount_in < 10.0 lowers (amounts in hundredths)
SizeAdjustment(transaction) ==
    IF transaction.amount_in > 10000 THEN 1
    ELSE IF transaction.amount_in < 1000 THEN -1
    ELSE 0

\* slippage > 0.03 raises, slippage < 0.01 lowers (slippage in basis points)
SlippageAdjustment(transaction) ==
    IF transaction.slippage > 300 THEN 1
    ELSE IF transaction.slippage < 100 THEN -1
    ELSE 0

\* sentiment_score < -0.3 raises, > 0.7 lowers (scores in hundredths)
SentimentAdjustment(sentiment) ==
    IF ~IsSome(sentiment) THEN 0
    ELSE IF sentiment.val.sentiment_score < -30 THEN 1
    ELSE IF sentiment.val.sentiment_score > 70 THEN -1
    ELSE 0

\* market.prices.iter().find(|p| p.token == transaction.token_out)
FindPrice(prices, token) ==
    IF \E i \in 1..Len(prices) : prices[i].token = token
    THEN Some(prices[CHOOSE i \in 1..Len(prices) :
                        /\ prices[i].token = token
                        /\ \A j \in 1..(i - 1) : prices[j].token # token])
    ELSE None

\* |change_24h| > 10.0 of the price found for token_out raises (percent in
\* hundredths)
VolatilityAdjustment(transaction, market_data) ==
    IF ~IsSome(market_data) THEN 0
    ELSE LET token_price == FindPrice(market_data.val.prices, transaction.token_out)
         IN  IF IsSome(token_price) /\ Abs(token_price.val.change_24h) > 1000
             THEN 1 ELSE 0

\* RiskAnalyzer::analyze_risk: Some(level), or None when the call panics.
analyze_risk(self, transaction, sentiment, market_data, overflow_checks) ==
    LET base     == Some(2)
        sized    == U8Adjust(base, SizeAdjustment(transaction), overflow_checks)
        slipped  == U8Adjust(sized, SlippageAdjustment(transaction), overflow_checks)
        felt     == U8Adjust(slipped, SentimentAdjustment(sentiment), overflow_checks)
        risk_level == U8Adjust(felt, VolatilityAdjustment(transaction, market_data),
                               overflow_checks)
    IN  IF risk_level = None THEN None ELSE Some(Clamp(risk_level.val, 1, 3))

\* RiskAnalyzer::is_within_risk_tolerance
is_within_risk_tolerance(self, risk_level) == risk_level <= self.risk_tolerance

\* --------------------------------------------------------------- executor

\* TransactionExecutor::get_token_mint
get_token_mint(token_symbol) ==
    CASE token_symbol = "SOL"  -> Ok("So11")
      [] token_symbol = "USDC" -> Ok("EPjF")
      [] token_symbol = "BONK" -> Ok("DezX")
      [] OTHER                 -> Err("Unknown token symbol")

\* Where the router collaborator fails during one executor call.
RouterFaults ==
    {"none", "token_info", "quote", "simulate", "simulate_rejected", "swap"}

\* The common prefix of simulate_transaction and execute_trade: both mints,
\* both to_raw_amount calls (router.get_token_info) and router.get_best_quote.
\* The result carries the router calls made.
ResolveAndQuote(decision, fault) ==
    IF ~IsOk(get_token_mint(decision.token_in)) \/ ~IsOk(get_token_mint(decision.token_out))
    THEN [ok |-> FALSE, calls |-> << >>]
    ELSE IF fault = "token_info"
    THEN [ok |-> FALSE, calls |-> <<"get_token_info">>]
    ELSE IF fault = "quote"
    THEN [ok |-> FALSE, calls |-> <<"get_token_info", "get_token_info", "get_best_quote">>]
    ELSE [ok |-> TRUE,  calls |-> <<"get_token_info", "get_token_info", "get_best_quote">>]

\* simulate_transaction returning a rejected dry run as an error.
simulate_transaction_rejection_is_error(decision, fault) ==
    LET q == ResolveAndQuote(decision, fault)
    IN  IF ~q.ok
        THEN [result |-> Err("simulate"), calls |-> q.calls]
        ELSE IF fault \in {"simulate", "simulate_rejected"}
        THEN [result |-> Err("simulate"), calls |-> q.calls \o <<"simulate_swap">>]
        ELSE [result |-> Ok(TRUE),  calls |-> q.calls \o <<"simulate_swap">>]

\* simulate_transaction submitting the swap instead of dry-running it.
simulate_transaction_submits(decision, fault) ==
    LET q == ResolveAndQuote(decision, fault)
    IN  IF ~q.ok
        THEN [result |-> Err("simulate"), calls |-> q.calls]
        ELSE IF fault = "simulate"
        THEN [result |-> Err("simulate"), calls |-> q.calls \o <<"swap">>]
        ELSE IF fault = "simulate_rejected"
        THEN [result |-> Ok(FALSE), calls |-> q.calls \o <<"swap">>]
        ELSE [result |-> Ok(TRUE),  calls |-> q.calls \o <<"swap">>]

\* TransactionExecutor::simulate_transaction
simulate_transaction(decision, fault) ==
    LET q == ResolveAndQuote(decision, fault)
    IN  IF ~q.ok
        THEN [result |-> Err("simulate"), calls |-> q.calls]
        ELSE IF fault = "simulate"
        THEN [result |-> Err("simulate"), calls |-> q.calls \o <<"simulate_swap">>]
        ELSE IF fault = "simulate_rejected"
        THEN [result |-> Ok(FALSE), calls |-> q.calls \o <<"simulate_swap">>]
        ELSE [result |-> Ok(TRUE),  calls |-> q.calls \o <<"simulate_swap">>]

\* execute_trade sending every strategy that starts with "sandwich" through
\* the priority-fee path.
execute_trade_sandwich_priority(mode, decision, fault) ==
    IF mode
    THEN [result |-> Ok("SIM_TX_SIGNATURE"), calls |-> << >>]
    ELSE LET q    == ResolveAndQuote(decision, fault)
             path == IF decision.strategy \in {"sandwich_front", "sandwich_back", "sandwich"}
                     THEN "swap_with_priority"
                     ELSE "swap"
         IN  IF ~q.ok
             THEN [result |-> Err("execute"), calls |-> q.calls]
             ELSE IF fault = "swap"
             THEN [result |-> Err("execute"), calls |-> q.calls \o <<path>>]
             ELSE [result |-> Ok("signature"), calls |-> q.calls \o <<path>>]

\* execute_trade with the simulation_mode test moved below the mint lookup.
execute_trade_resolve_first(mode, decision, fault) ==
    IF ~IsOk(get_token_mint(decision.token_in)) \/ ~IsOk(get_token_mint(decision.token_out))
    THEN [result |-> Err("execute"), calls |-> << >>]
    ELSE IF mode
    THEN [result |-> Ok("SIM_TX_SIGNATURE"), calls |-> << >>]
    ELSE LET q    == ResolveAndQuote(decision, fault)
             path == IF decision.strategy \in {"sandwich_front", "sandwich_back"}
                     THEN "swap_with_priority"
                     ELSE "swap"
         IN  IF ~q.ok
             THEN [result |-> Err("execute"), calls |-> q.calls]
             ELSE IF fault = "swap"
             THEN [result |-> Err("execute"), calls |-> q.calls \o <<path>>]
             ELSE [result |-> Ok("signature"), calls |-> q.calls \o <<path>>]

\* TransactionExecutor::execute_trade
execute_trade(mode, decision, fault) ==
    IF mode
    THEN [result |-> Ok("SIM_TX_SIGNATURE"), calls |-> << >>]
    ELSE LET q    == ResolveAndQuote(decision, fault)
             path == IF decision.strategy \in {"sandwich_front", "sandwich_back"}
                     THEN "swap_with_priority"
                     ELSE "swap"
         IN  IF ~q.ok
             THEN [result |-> Err("execute"), calls |-> q.calls]
             ELSE IF fault = "swap"
             THEN [result |-> Err("execute"), calls |-> q.calls \o <<path>>]
             ELSE [result |-> Ok("signature"), calls |-> q.calls \o <<path>>]

\* TransactionExecutor::to_raw_amount: (amount * 10f64.powi(decimals)) as u64.
\* amount is the numerator of expected_min_out over 2000000; the cast to u64
\* cuts the fraction and takes a negative value to 0.  Decimals of 6 and more.
to_raw_amount(amount, decimals) ==
    IF amount < 0 THEN 0
    ELSE IF decimals = 6 THEN amount \div 2
    ELSE amount * (Pow10(decimals - 6) \div 2)

\* ----------------------------------------------------------------- logger

\* A chunk of the file: a piece of punctuation, or the text of one entry.
Punctuation(text) == [text |-> text, object |-> None]

\* serde_json::to_string_pretty(&log_entry): the text of one JSON object
ToJson(log_entry) == [text |-> "{..}", object |-> Some(log_entry)]

\* What opening trades.json for append does.
LogFaults == {"ok", "open_failed"}

\* log_trade writing "[" before every entry.
log_trade_always_opens_array(file, log_entry, io) ==
    IF io = "open_failed"
    THEN [result |-> Err("io"), file |-> file]
    ELSE [ result |-> Ok("unit"),
           file   |-> Some((IF file = None THEN << >> ELSE file.val)
                               \o <<Punctuation("["), ToJson(log_entry)>>) ]

\* log_trade truncating the file it writes to.
log_trade_truncates(file, log_entry, io) ==
    IF io = "open_failed"
    THEN [result |-> Err("io"), file |-> file]
    ELSE [ result |-> Ok("unit"),
           file   |-> Some(<<Punctuation("["), ToJson(log_entry)>>) ]

\* Logger::log_trade: "[" when the file is new, "," when it exists, then the
\* entry; the array is left open.  file is the sequence of chunks written.
log_trade(file, log_entry, io) ==
    IF io = "open_failed"
    THEN [result |-> Err("io"), file |-> file]
    ELSE [ result |-> Ok("unit"),
           file   |-> Some((IF file = None THEN <<Punctuation("[")>>
                            ELSE Append(file.val, Punctuation(",")))
                               \o <<ToJson(log_entry)>>) ]

\* The entries of object ("," object)*, or an error.
RECURSIVE ParseEntries(_)
ParseEntries(chunks) ==
    IF ~IsSome(chunks[1].object)
    THEN Err("json")
    ELSE IF Len(chunks) = 1
    THEN Ok(<<chunks[1].object.val>>)
    ELSE IF Len(chunks) < 3 \/ chunks[2].text # ","
    THEN Err("json")
    ELSE LET rest == ParseEntries(SubSeq(chunks, 3, Len(chunks)))
         IN  IF IsOk(rest) THEN Ok(<<chunks[1].object.val>> \o rest.val) ELSE rest

\* serde_json::from_str::<Vec<TradeLog>>: "[" "]" or "[" entries "]"
ParseArray(chunks) ==
    IF Len(chunks) < 2 \/ chunks[1].text # "[" \/ chunks[Len(chunks)].text # "]"
    THEN Err("json")
    ELSE IF Len(chunks) = 2
    THEN Ok(<< >>)
    ELSE ParseEntries(SubSeq(chunks, 2, Len(chunks) - 1))

\* get_trade_history parsing the content as it is, without closing the array.
get_trade_history_no_repair(file) ==
    IF file = None THEN Ok(<< >>) ELSE ParseArray(file.val)

\* Logger::get_trade_history: no file gives the empty history; otherwise the
\* content, closed with "]" unless it ends with one, is parsed.
get_trade_history(file) ==
    IF file = None
    THEN Ok(<< >>)
    ELSE LET content == file.val
             fixed_content ==
                 IF content # << >> /\ content[Len(content)].text = "]"
                 THEN content
                 ELSE Append(content, Punctuation("]"))
         IN  ParseArray(fixed_content)

\* --------------------------------------------------------------- notifier

\* TelegramNotifier::new
TelegramNotifier_new(bot_token, chat_id) ==
    [ bot_token |-> bot_token, chat_id |-> chat_id ]

\* What the Telegram API does with a request: answers with a success status,
\* answers with an error status, or cannot be reached.
TelegramResponses == {"success", "api_error", "unreachable"}

\* send_notification posting whether or not the notifier is configured.
send_notification_always_posts(self, message, response) ==
    [ message |-> message,
      result  |-> IF response = "success" THEN Ok("unit") ELSE Err(response),
      network |-> <<"sendMessage">> ]

\* TelegramNotifier::send_notification: result is what the call returns,
\* network the requests it made.
send_notification(self, message, response) ==
    IF ~(IsSome(self.bot_token) /\ IsSome(self.chat_id))
    THEN [ message |-> message, result |-> Ok("unit"), network |-> << >> ]
    ELSE [ message |-> message,
           result  |-> IF response = "success" THEN Ok("unit") ELSE Err(response),
           network |-> <<"sendMessage">> ]

\* ------------------------------------------------------------------ state

VARIABLES
    simulation_mode,   \* TransactionExecutor.simulation_mode (the --sim flag)
    agent_configured,  \* RigAgent.agent.is_some() (RIG_API_KEY set)
    ctrl_c,            \* the Ctrl+C task: "waiting" | "done" | "cancelled"
    shutdown_channel,  \* messages pending in the shutdown channel
    scanner,           \* where the scanner task stands
    cause,             \* why the stream is backing off
    item,              \* Option<Transaction> the stream has just yielded
    pending,           \* Option<SwapTransaction> the scanner is sending
    tx_channel,        \* the queue between scanner and consumer
    consumer,          \* where the consumer loop stands
    exit_reason,       \* why the consumer loop broke: "none" | "shutdown" | "closed"
    transaction,       \* Option: the transaction process_transaction works on
    agent_decision,    \* Option<AgentDecision>
    opportunity_score, \* Option<OpportunityScore>
    trade_decision,    \* Option<TradeDecision>
    tx_signature,      \* Option<String>: what execute_trade returned Ok
    trades,            \* the trade log, in append order
    log_file,          \* Option: the chunks written to trades.json, None while it does not exist
    executor,          \* executor states the latest transaction went through
    router_calls,      \* router operations invoked for the current transaction
    inflight,          \* process_transaction calls begun and not returned
    sent,              \* sends that returned Ok
    received,          \* records the consumer dequeued
    fails,             \* consecutive connect/subscribe failures
    waits,             \* backoff waits of the current run of failures
    emitted,           \* records sent during a run of failures
    call_result,       \* Option: what a direct call of a component returned
    call_args,         \* Option: the method called directly and its arguments
    opportunity_scorer,\* OpportunityScorer { min_opportunity_score, max_risk_level }
    decision_maker,    \* DecisionMaker { min_profitability }
    market_data,       \* Option<MarketData> of the transaction in process
    sentiment,         \* Option<SentimentData> of the transaction in process
    oracle_calls,      \* evaluate_opportunity calls made for the latest transaction
    telegram,          \* TelegramNotifier { bot_token, chat_id }
    notifications      \* send_notification calls made for the latest transaction

stream_vars == <<scanner, cause, item, pending, fails, waits, emitted>>

call_vars == <<transaction, market_data, sentiment, agent_decision,
               opportunity_score, trade_decision, tx_signature, executor,
               router_calls, oracle_calls, notifications>>

config_vars == <<simulation_mode, agent_configured, opportunity_scorer, decision_maker,
                 telegram>>

example_vars == <<call_result, call_args>>

vars == <<config_vars, example_vars, ctrl_c, shutdown_channel, stream_vars, tx_channel, sent,
          consumer, exit_reason, call_vars, trades, log_file, inflight, received>>

Init ==
    /\ simulation_mode \in BOOLEAN
    /\ agent_configured \in BOOLEAN
    /\ ctrl_c = "waiting"
    /\ shutdown_channel = 0
    /\ scanner = "connect"
    /\ cause = "none"
    /\ item = None
    /\ pending = None
    /\ tx_channel = << >>
    /\ consumer = "select"
    /\ exit_reason = "none"
    /\ transaction = None
    /\ agent_decision = None
    /\ opportunity_score = None
    /\ trade_decision = None
    /\ tx_signature = None
    /\ trades = << >>
    /\ log_file = None
    /\ executor = <<"Idle">>
    /\ router_calls = << >>
    /\ inflight = 0
    /\ sent = 0
    /\ received = 0
    /\ fails = 0
    /\ waits = 0
    /\ emitted = 0
    /\ call_result = None
    /\ call_args = None
    /\ opportunity_scorer = OpportunityScorer_new(min_opportunity_score, max_risk_level)
    /\ decision_maker = DecisionMaker_new(min_profitability)
    /\ market_data = None
    /\ sentiment = None
    /\ oracle_calls = << >>
    /\ telegram = TelegramNotifier_new(None, None)
    /\ notifications = << >>

\* The receiver half is dropped when run_sandoseer returns.
ReceiverDropped == consumer = "exited"

\* The sender half is dropped when start_scanning returns.
SenderDropped == scanner = "returned"

\* ----------------------------------------------------------- Ctrl+C task

\* ctrl_c().await resolves; the task sends () on the shutdown channel.
CtrlC ==
    /\ ctrl_c = "waiting"
    /\ shutdown_channel < ShutdownCapacity
    /\ ctrl_c' = "done"
    /\ shutdown_channel' = IF ReceiverDropped THEN shutdown_channel
                           ELSE shutdown_channel + 1
    /\ UNCHANGED <<config_vars, example_vars, stream_vars, tx_channel, sent, consumer,
                   exit_reason, call_vars, trades, log_file, inflight, received>>

\* ---------------------------------------------------------- swap stream

producer_frame ==
    UNCHANGED <<config_vars, example_vars, ctrl_c, shutdown_channel, consumer, exit_reason,
                call_vars, trades, log_file, inflight, received>>

\* The closure yields its marker at once, without the sleep.
StreamFailNoWait(why) ==
    /\ scanner' = "item"
    /\ cause' = "none"
    /\ item' = BackoffItem(why)
    /\ fails' = fails + 1
    /\ UNCHANGED <<pending, waits, emitted, tx_channel, sent>>

\* The unfold closure backs off: remember why, count the failure.
StreamFail(why) ==
    /\ scanner' = "backoff"
    /\ cause' = why
    /\ fails' = fails + 1
    /\ UNCHANGED <<item, pending, waits, emitted, tx_channel, sent>>

\* tx_stream.next() is polled: PubsubClient::new(&ws_url).await
StreamConnect(ok) ==
    /\ scanner = "connect"
    /\ IF ok
       THEN /\ scanner' = "subscribe"
            /\ UNCHANGED <<cause, item, pending, fails, waits, emitted, tx_channel, sent>>
       ELSE /\ fails < MaxFails
            /\ StreamFail("connection_error")
    /\ producer_frame

\* pubsub_client.slot_subscribe().await
StreamSubscribe(ok) ==
    /\ scanner = "subscribe"
    /\ IF ok
       THEN /\ scanner' = "subscribed"
            /\ UNCHANGED <<cause, item, pending, fails, waits, emitted, tx_channel, sent>>
       ELSE /\ fails < MaxFails
            /\ StreamFail("subscription_error")
    /\ producer_frame

\* notifications.next().await: a slot, or the end of the notification stream
StreamNotification(slot, info) ==
    /\ scanner = "subscribed"
    /\ fails' = 0
    /\ waits' = 0
    /\ IF slot
       THEN /\ scanner' = "item"
            /\ item' = Some(SlotItem(info))
            /\ cause' = cause
       ELSE /\ scanner' = "backoff"
            /\ cause' = "reconnecting"
            /\ item' = item
    /\ UNCHANGED <<pending, emitted, tx_channel, sent>>
    /\ producer_frame

\* sleep(Duration::from_secs(1)).await elapses; the closure yields its marker.
StreamBackoff ==
    /\ scanner = "backoff"
    /\ scanner' = "item"
    /\ item' = BackoffItem(cause)
    /\ waits' = IF cause = "reconnecting" THEN waits ELSE waits + 1
    /\ cause' = "none"
    /\ UNCHANGED <<pending, fails, emitted, tx_channel, sent>>
    /\ producer_frame

\* while let Some(tx) = tx_stream.next().await { match process_transaction(tx) .. }
ScannerItem ==
    /\ scanner = "item"
    /\ item' = None
    /\ IF ~IsSome(item)
       THEN /\ scanner' = "returned"
            /\ pending' = pending
       ELSE LET swap_tx == ScannerProcess(item.val)
            IN  IF IsSome(swap_tx)
                THEN /\ scanner' = "send"
                     /\ pending' = swap_tx
                ELSE /\ scanner' = "connect"
                     /\ pending' = pending
    /\ UNCHANGED <<cause, fails, waits, emitted, tx_channel, sent>>
    /\ producer_frame

\* try_send in place of send: a full queue makes the call fail at once and
\* the record is lost.
ScannerTrySend ==
    /\ scanner = "send"
    /\ IF ReceiverDropped \/ Len(tx_channel) >= ChannelCapacity
       THEN UNCHANGED <<tx_channel, sent, emitted>>
       ELSE /\ tx_channel' = Append(tx_channel, pending.val)
            /\ sent' = sent + 1
            /\ emitted' = IF fails > 0 THEN emitted + 1 ELSE emitted
    /\ scanner' = "connect"
    /\ pending' = None
    /\ UNCHANGED <<cause, item, fails, waits>>
    /\ producer_frame

\* self.tx_sender.send(swap_tx).await: waits for capacity; Err (logged) once
\* the receiver is gone.
ScannerSend ==
    /\ scanner = "send"
    /\ ReceiverDropped \/ Len(tx_channel) < ChannelCapacity
    /\ IF ReceiverDropped
       THEN UNCHANGED <<tx_channel, sent, emitted>>
       ELSE /\ tx_channel' = Append(tx_channel, pending.val)
            /\ sent' = sent + 1
            /\ emitted' = IF fails > 0 THEN emitted + 1 ELSE emitted
    /\ scanner' = "connect"
    /\ pending' = None
    /\ UNCHANGED <<cause, item, fails, waits>>
    /\ producer_frame

\* ------------------------------------------------------- consumer loop

consumer_frame ==
    UNCHANGED <<config_vars, example_vars, ctrl_c, stream_vars, sent>>

\* process_transaction returns; the loop is back at its select!.
ReturnToLoop ==
    /\ consumer' = "select"
    /\ transaction' = None
    /\ market_data' = None
    /\ sentiment' = None
    /\ agent_decision' = None
    /\ opportunity_score' = None
    /\ trade_decision' = None
    /\ tx_signature' = None
    /\ router_calls' = << >>
    /\ inflight' = inflight - 1

\* The loop breaks; run_sandoseer returns and drops both receivers.
BreakLoop(reason) ==
    /\ consumer' = "exited"
    /\ exit_reason' = reason
    /\ tx_channel' = << >>
    /\ shutdown_channel' = 0

\* The signal aborts whatever the consumer is doing.
ShutdownObservedMidFlight ==
    /\ consumer # "exited"
    /\ shutdown_channel > 0
    /\ BreakLoop("shutdown")
    /\ UNCHANGED <<call_vars, trades, log_file, inflight, received>>
    /\ consumer_frame

\* select!: shutdown_receiver.recv() yields the signal
ShutdownObserved ==
    /\ consumer = "select"
    /\ shutdown_channel > 0
    /\ BreakLoop("shutdown")
    /\ UNCHANGED <<call_vars, trades, log_file, inflight, received>>
    /\ consumer_frame

\* process_transaction spawned as a task of its own: the loop dequeues again
\* while the previous call is still running.
RecvTransactionSpawned ==
    /\ consumer # "exited"
    /\ IF tx_channel # << >>
       THEN /\ transaction' = Some(Head(tx_channel))
            /\ tx_channel' = Tail(tx_channel)
            /\ received' = received + 1
            /\ inflight' = inflight + 1
            /\ consumer' = "market"
            /\ executor' = <<"Idle">>
            /\ oracle_calls' = << >>
            /\ notifications' = << >>
            /\ UNCHANGED <<exit_reason, shutdown_channel>>
       ELSE /\ consumer = "select"
            /\ SenderDropped
            /\ BreakLoop("closed")
            /\ UNCHANGED <<transaction, received, inflight, executor, oracle_calls, notifications>>
    /\ UNCHANGED <<market_data, sentiment, agent_decision, opportunity_score, trade_decision,
                   tx_signature, router_calls, trades, log_file>>
    /\ consumer_frame

\* select!: tx_receiver.recv() yields Some(transaction), and process_transaction
\* runs to its first await; or None once the channel is closed and empty.
RecvTransaction ==
    /\ consumer = "select"
    /\ IF tx_channel # << >>
       THEN /\ transaction' = Some(Head(tx_channel))
            /\ tx_channel' = Tail(tx_channel)
            /\ received' = received + 1
            /\ inflight' = inflight + 1
            /\ consumer' = "market"
            /\ executor' = <<"Idle">>
            /\ oracle_calls' = << >>
            /\ notifications' = << >>
            /\ UNCHANGED <<exit_reason, shutdown_channel>>
       ELSE /\ SenderDropped
            /\ BreakLoop("closed")
            /\ UNCHANGED <<transaction, received, inflight, executor, oracle_calls, notifications>>
    /\ UNCHANGED <<market_data, sentiment, agent_decision, opportunity_score, trade_decision,
                   tx_signature, router_calls, trades, log_file>>
    /\ consumer_frame

step_frame ==
    /\ UNCHANGED <<shutdown_channel, tx_channel, exit_reason, received>>
    /\ consumer_frame

\* get_market_data with its Err arm returning from process_transaction.
MarketDataDoneAbort(ok) ==
    /\ consumer = "market"
    /\ IF ok
       THEN /\ consumer' = "sentiment"
            /\ market_data' = Some("MarketData")
            /\ UNCHANGED <<transaction, sentiment, agent_decision, opportunity_score,
                           trade_decision, tx_signature, router_calls, inflight>>
       ELSE ReturnToLoop
    /\ UNCHANGED <<executor, oracle_calls, notifications, trades, log_file>>
    /\ step_frame

\* market_data_collector.get_market_data(&tokens).await
MarketDataDone(ok) ==
    /\ consumer = "market"
    /\ consumer' = "sentiment"
    /\ market_data' = IF ok THEN Some("MarketData") ELSE None
    /\ UNCHANGED <<transaction, sentiment, agent_decision, opportunity_score,
                   trade_decision, tx_signature, executor, router_calls,
                   oracle_calls, notifications, trades, log_file, inflight>>
    /\ step_frame

\* sentiment_analyzer.get_token_sentiment(&transaction.token_out).await
SentimentDone(ok) ==
    /\ consumer = "sentiment"
    /\ consumer' = "evaluate"
    /\ sentiment' = IF ok THEN Some("SentimentData") ELSE None
    /\ UNCHANGED <<transaction, market_data, agent_decision, opportunity_score,
                   trade_decision, tx_signature, executor, router_calls,
                   oracle_calls, notifications, trades, log_file, inflight>>
    /\ step_frame

\* An Err of evaluate_opportunity propagated out of the loop.
EvaluateDoneFatal(remote, random_factor) ==
    /\ consumer = "evaluate"
    /\ ~IsOk(evaluate_opportunity(agent_configured, transaction.val, remote, random_factor))
    /\ BreakLoop("error")
    /\ UNCHANGED <<call_vars, trades, log_file, inflight, received>>
    /\ consumer_frame

\* rig_agent.evaluate_opportunity(..).await, then steps 4 and 5: the score,
\* the should_execute gate, make_decision, up to notify_opportunity_detected.
EvaluateDone(remote, random_factor) ==
    /\ consumer = "evaluate"
    /\ oracle_calls' = Append(oracle_calls,
           OracleCall(agent_configured, transaction.val, market_data, sentiment))
    /\ LET r == evaluate_opportunity(agent_configured, transaction.val, remote, random_factor)
       IN  IF ~IsOk(r)
           THEN ReturnToLoop
           ELSE LET score    == calculate_score(opportunity_scorer, transaction.val,
                                                r.val, market_data)
                    decision == make_decision(decision_maker, transaction.val,
                                              score, r.val)
                IN  IF ~should_execute(opportunity_scorer, score)
                    THEN ReturnToLoop
                    ELSE IF ~IsSome(decision)
                    THEN ReturnToLoop
                    ELSE /\ agent_decision' = Some(r.val)
                         /\ opportunity_score' = Some(score)
                         /\ trade_decision' = decision
                         /\ consumer' = "notify_detected"
                         /\ UNCHANGED <<transaction, market_data, sentiment,
                                        tx_signature, router_calls, inflight>>
    /\ UNCHANGED <<trades, log_file, executor, notifications>>
    /\ step_frame

\* The match with a notification Err leaving process_transaction.
AfterNotificationStrict(result) ==
    IF IsOk(result) THEN "continue" ELSE "return"

\* if let Err(e) = telegram.notify_..(..).await { error!(..) }: the result is
\* logged and the pipeline goes on either way.
AfterNotification(result) == "continue"

\* telegram.notify_opportunity_detected(..).await returns (Ok, or Err which is
\* logged); simulate_transaction is called.
NotifyDetectedDone(response) ==
    /\ consumer = "notify_detected"
    /\ LET note == send_notification(telegram, "opportunity_detected", response)
       IN  /\ notifications' = Append(notifications, note)
           /\ IF AfterNotification(note.result) = "continue"
              THEN /\ consumer' = "simulate"
                   /\ executor' = Append(executor, "Simulating")
                   /\ UNCHANGED <<transaction, market_data, sentiment, agent_decision,
                                  opportunity_score, trade_decision, tx_signature,
                                  router_calls, inflight>>
              ELSE /\ ReturnToLoop
                   /\ UNCHANGED executor
    /\ UNCHANGED <<oracle_calls, trades, log_file>>
    /\ step_frame

\* The match with its Ok(false) arm falling through to execute_trade.
AfterSimulationAnyOk(result) ==
    IF IsOk(result) THEN "execute" ELSE "return"

\* match transaction_executor.simulate_transaction(&trade_decision).await
AfterSimulation(result) ==
    IF IsOk(result) /\ result.val = TRUE THEN "execute" ELSE "return"

\* simulate_transaction returns; on Ok(true) execute_trade is called.
SimulateDone(fault) ==
    /\ consumer = "simulate"
    /\ LET sim == simulate_transaction(trade_decision.val, fault)
           outcome == IF IsOk(sim.result) /\ sim.result.val = TRUE
                      THEN "SimulationPassed" ELSE "SimulationFailed"
       IN  IF AfterSimulation(sim.result) = "execute"
           THEN /\ consumer' = "execute"
                /\ executor' = executor \o <<outcome, "Executing">>
                /\ router_calls' = router_calls \o sim.calls
                /\ UNCHANGED <<transaction, market_data, sentiment, oracle_calls, notifications, agent_decision, opportunity_score,
                               trade_decision, tx_signature, inflight>>
           ELSE /\ executor' = Append(executor, outcome)
                /\ ReturnToLoop
                /\ UNCHANGED <<oracle_calls, notifications>>
    /\ UNCHANGED <<trades, log_file>>
    /\ step_frame

\* The Err arm recording the expected amount as if the trade had gone through.
TradeLogOfKeepsAmount(decision, result) ==
    IF IsOk(result)
    THEN [ success |-> TRUE, tx_signature |-> Some(result.val),
           amount_out |-> Some(decision.expected_min_out),
           strategy |-> decision.strategy ]
    ELSE [ success |-> FALSE, tx_signature |-> None,
           amount_out |-> Some(decision.expected_min_out),
           strategy |-> decision.strategy ]

\* The TradeLog record each arm of the match builds.
TradeLogOf(decision, result) ==
    IF IsOk(result)
    THEN [ success |-> TRUE, tx_signature |-> Some(result.val),
           amount_out |-> Some(decision.expected_min_out),
           strategy |-> decision.strategy ]
    ELSE [ success |-> FALSE, tx_signature |-> None, amount_out |-> None,
           strategy |-> decision.strategy ]

\* execute_trade returns; its Err arm simulates and executes the decision again.
ExecuteDoneRetry(fault) ==
    /\ consumer = "execute"
    /\ LET ex == execute_trade(simulation_mode, trade_decision.val, fault)
       IN  /\ router_calls' = router_calls \o ex.calls
           /\ tx_signature' = IF IsOk(ex.result) THEN Some(ex.result.val) ELSE None
           /\ IF IsOk(ex.result)
              THEN /\ executor' = Append(executor, "Committed")
                   /\ consumer' = "log"
              ELSE /\ executor' = executor \o <<"ExecutionFailed", "Simulating">>
                   /\ consumer' = "simulate"
    /\ UNCHANGED <<transaction, market_data, sentiment, oracle_calls, notifications, agent_decision, opportunity_score, trade_decision,
                   trades, log_file, inflight>>
    /\ step_frame

\* execute_trade returns; the arm builds its TradeLog and calls log_trade.
ExecuteDone(fault) ==
    /\ consumer = "execute"
    /\ LET ex == execute_trade(simulation_mode, trade_decision.val, fault)
       IN  /\ executor' = Append(executor,
                   IF IsOk(ex.result) THEN "Committed" ELSE "ExecutionFailed")
           /\ router_calls' = router_calls \o ex.calls
           /\ tx_signature' = IF IsOk(ex.result) THEN Some(ex.result.val) ELSE None
    /\ consumer' = "log"
    /\ UNCHANGED <<transaction, market_data, sentiment, oracle_calls, notifications, agent_decision, opportunity_score, trade_decision,
                   trades, log_file, inflight>>
    /\ step_frame

\* logger.log_trade(trade_log).await returns: the record is appended, or the
\* write failed (logged).  The Err arm of execute_trade ends here.
LogDone(ok) ==
    /\ consumer = "log"
    /\ LET log_entry == TradeLogOf(trade_decision.val,
                            IF IsSome(tx_signature) THEN Ok(tx_signature.val)
                            ELSE Err("execute"))
       IN  /\ trades' = IF ok THEN Append(trades, log_entry) ELSE trades
           /\ log_file' = log_trade(log_file, log_entry,
                                    IF ok THEN "ok" ELSE "open_failed").file
    /\ IF IsSome(tx_signature)
       THEN /\ consumer' = "notify_executed"
            /\ UNCHANGED <<call_vars, inflight>>
       ELSE /\ ReturnToLoop
            /\ UNCHANGED <<executor, oracle_calls, notifications>>
    /\ step_frame

\* telegram.notify_trade_execution(..).await returns (Ok, or Err which is logged).
NotifyExecutedDone(response) ==
    /\ consumer = "notify_executed"
    /\ notifications' = Append(notifications,
           send_notification(telegram, "trade_execution", response))
    /\ ReturnToLoop
    /\ UNCHANGED <<trades, log_file, executor, oracle_calls>>
    /\ step_frame

\* main returns and the runtime is dropped: the spawned tasks are cancelled
\* at their await points.
RuntimeShutdown ==
    /\ consumer = "exited"
    /\ scanner \notin {"returned", "cancelled"}
    /\ scanner' = "cancelled"
    /\ ctrl_c' = IF ctrl_c = "waiting" THEN "cancelled" ELSE ctrl_c
    /\ UNCHANGED <<config_vars, example_vars, shutdown_channel, cause, item, pending, fails,
                   waits, emitted, tx_channel, sent, consumer, exit_reason,
                   call_vars, trades, log_file, inflight, received>>

\* ---------------------------------------------------------- specification

\* What the feed turns a slot into while it still has swaps to deliver.
Feed == IF sent < MaxSwaps THEN SlotSwapInfo ELSE {None}

Next ==
    \/ CtrlC
    \/ \E ok \in BOOLEAN : StreamConnect(ok)
    \/ \E ok \in BOOLEAN : StreamSubscribe(ok)
    \/ \E slot \in BOOLEAN, info \in Feed : StreamNotification(slot, info)
    \/ StreamBackoff
    \/ ScannerItem
    \/ ScannerSend
    \/ ShutdownObserved
    \/ RecvTransaction
    \/ MarketDataDone(TRUE)
    \/ SentimentDone(TRUE)
    \/ \E remote \in RemoteOutcomes, random_factor \in RandomFactors :
           EvaluateDone(remote, random_factor)
    \/ \E response \in TelegramResponses : NotifyDetectedDone(response)
    \/ \E fault \in RouterFaults : SimulateDone(fault)
    \/ \E fault \in RouterFaults : ExecuteDone(fault)
    \/ \E ok \in BOOLEAN : LogDone(ok)
    \/ \E response \in TelegramResponses : NotifyExecutedDone(response)
    \/ RuntimeShutdown

\* The whole pipeline on a feed of at most MaxSwaps swaps.
Spec == Init /\ [][Next]_vars

\* The default configuration (Config::default: no RIG_API_KEY, thresholds 0.8
\* and 2; no --sim flag) on an unbounded feed of one kind of swap.  Every transaction is
\* scored by the heuristic; the steps after the gates are never enabled.
InitBackpressure ==
    /\ Init
    /\ ~simulation_mode
    /\ ~agent_configured

NextBackpressure ==
    \/ CtrlC
    \/ \E ok \in BOOLEAN : StreamConnect(ok)
    \/ \E ok \in BOOLEAN : StreamSubscribe(ok)
    \/ \E slot \in BOOLEAN, info \in {None, Some(UsdcSolSwap)} :
           StreamNotification(slot, info)
    \/ StreamBackoff
    \/ ScannerItem
    \/ ScannerSend
    \/ ShutdownObserved
    \/ (received < MaxReceived /\ RecvTransaction)
    \/ MarketDataDone(TRUE)
    \/ SentimentDone(TRUE)
    \/ \E remote \in RemoteOutcomes, random_factor \in RandomFactors :
           EvaluateDone(remote, random_factor)
    \/ RuntimeShutdown

SpecBackpressure == InitBackpressure /\ [][NextBackpressure]_vars

\* The pipeline on the feed as stream_dex_swaps is written: every slot becomes
\* the placeholder item with swap_info None.  The tasks are scheduled fairly:
\* the sleep elapses and the scanner's loop body runs once an item is there.
NextStream ==
    \/ CtrlC
    \/ \E ok \in BOOLEAN : StreamConnect(ok)
    \/ \E ok \in BOOLEAN : StreamSubscribe(ok)
    \/ \E slot \in BOOLEAN : StreamNotification(slot, None)
    \/ StreamBackoff
    \/ ScannerItem
    \/ ShutdownObserved
    \/ RuntimeShutdown

SpecStream ==
    /\ Init
    /\ [][NextStream]_vars
    /\ WF_vars(StreamBackoff)
    /\ WF_vars(ScannerItem)

\* The pipeline with collaborators that fail: get_market_data and
\* get_token_sentiment return Ok or Err, on a feed of at most MaxReceived swaps
\* of one kind.
NextFaults ==
    \/ CtrlC
    \/ \E ok \in BOOLEAN : StreamConnect(ok)
    \/ \E ok \in BOOLEAN : StreamSubscribe(ok)
    \/ \E slot \in BOOLEAN,
          info \in IF sent < MaxReceived THEN {None, Some(UsdcSolSwap)} ELSE {None} :
           StreamNotification(slot, info)
    \/ StreamBackoff
    \/ ScannerItem
    \/ ScannerSend
    \/ ShutdownObserved
    \/ RecvTransaction
    \/ \E ok \in BOOLEAN : MarketDataDone(ok)
    \/ \E ok \in BOOLEAN : SentimentDone(ok)
    \/ \E remote \in RemoteOutcomes, random_factor \in RandomFactors :
           EvaluateDone(remote, random_factor)
    \/ \E response \in TelegramResponses : NotifyDetectedDone(response)
    \/ \E fault \in RouterFaults : SimulateDone(fault)
    \/ \E fault \in RouterFaults : ExecuteDone(fault)
    \/ \E ok \in BOOLEAN : LogDone(ok)
    \/ \E response \in TelegramResponses : NotifyExecutedDone(response)
    \/ RuntimeShutdown

SpecFaults == Init /\ [][NextFaults]_vars

\* ------------------------------------------- direct calls of the executor

\* TradeDecisions built by hand, as examples/sandwich.rs builds front_run and
\* back_run: every pair of a mapped or unmapped symbol, every strategy.
ExampleDecisions ==
    { [ token_in |-> a, token_out |-> b, amount_in |-> 5000,
        expected_min_out |-> 35000000, confidence_score |-> 90,
        risk_level |-> 2, strategy |-> st ] :
      a \in {"SOL", "USDC", "DOGE"}, b \in {"SOL", "USDC", "DOGE"},
      st \in {"sandwich_front", "sandwich_back", "sandwich", "snipe", "arbitrage",
              "liquidation"} }

\* A program that builds an executor in either mode and calls it directly;
\* the pipeline tasks are not started.
InitExecutor ==
    /\ simulation_mode \in BOOLEAN
    /\ agent_configured = FALSE
    /\ ctrl_c = "cancelled"
    /\ shutdown_channel = 0
    /\ scanner = "cancelled"
    /\ cause = "none"
    /\ item = None
    /\ pending = None
    /\ tx_channel = << >>
    /\ consumer = "example"
    /\ exit_reason = "none"
    /\ transaction = None
    /\ agent_decision = None
    /\ opportunity_score = None
    /\ trade_decision = None
    /\ tx_signature = None
    /\ trades = << >>
    /\ log_file = None
    /\ executor = <<"Idle">>
    /\ router_calls = << >>
    /\ inflight = 0
    /\ sent = 0
    /\ received = 0
    /\ fails = 0
    /\ waits = 0
    /\ emitted = 0
    /\ call_result = None
    /\ call_args = None
    /\ opportunity_scorer = OpportunityScorer_new(min_opportunity_score, max_risk_level)
    /\ decision_maker = DecisionMaker_new(min_profitability)
    /\ market_data = None
    /\ sentiment = None
    /\ oracle_calls = << >>
    /\ telegram = TelegramNotifier_new(None, None)
    /\ notifications = << >>

example_frame ==
    UNCHANGED <<config_vars, ctrl_c, shutdown_channel, stream_vars, tx_channel,
                sent, consumer, exit_reason, transaction, market_data, sentiment,
                oracle_calls, notifications, agent_decision, opportunity_score, tx_signature,
                trades, log_file, inflight, received>>

\* transaction_executor.execute_trade(decision).await
ExampleExecute(decision, fault) ==
    /\ consumer = "example"
    /\ LET ex == execute_trade(simulation_mode, decision, fault)
       IN  /\ call_result' = Some(ex.result)
           /\ router_calls' = ex.calls
           /\ executor' = <<"Idle", "Executing",
                            IF IsOk(ex.result) THEN "Committed" ELSE "ExecutionFailed">>
    /\ trade_decision' = Some(decision)
    /\ call_args' = Some([ op |-> "execute_trade", decision |-> decision,
                           fault |-> fault ])
    /\ example_frame

\* transaction_executor.simulate_transaction(&decision).await
ExampleSimulate(decision, fault) ==
    /\ consumer = "example"
    /\ LET sim == simulate_transaction(decision, fault)
       IN  /\ call_result' = Some(sim.result)
           /\ router_calls' = sim.calls
           /\ executor' = <<"Idle", "Simulating",
                            IF IsOk(sim.result) /\ sim.result.val = TRUE
                            THEN "SimulationPassed" ELSE "SimulationFailed">>
    /\ trade_decision' = Some(decision)
    /\ call_args' = Some([ op |-> "simulate_transaction", decision |-> decision,
                           fault |-> fault ])
    /\ example_frame

NextExecutor ==
    \/ \E decision \in ExampleDecisions, fault \in RouterFaults :
           ExampleExecute(decision, fault)
    \/ \E decision \in ExampleDecisions, fault \in RouterFaults :
           ExampleSimulate(decision, fault)

SpecExecutor == InitExecutor /\ [][NextExecutor]_vars

\* ----------------------------------- direct calls of the evaluator parts

\* SwapTransactions around the thresholds of determine_strategy:
\* slippage 0.01 .. 0.05 (basis points), amount_in 1.0 .. 10.0 (hundredths).
EvalTransactions ==
    { [ token_in |-> "SOL", token_out |-> "USDC", amount_in |-> a,
        estimated_amount_out |-> 10000, slippage |-> sl, pool_name |-> "Orca" ] :
      a \in {100, 500, 501, 1000}, sl \in {100, 200, 300, 301, 500} }

\* SwapTransactions that put the heuristic score on both sides of 0.7, 0.75
\* and 0.85 and beyond 1.0: amount_in 0, 2.5, 12.5, 15 and 100, slippage 0.5%
\* and 1%, the pools and pairs the heuristic tells apart.
HeuristicTransactions ==
    { [ token_in |-> pair[1], token_out |-> pair[2], amount_in |-> a,
        estimated_amount_out |-> 10000, slippage |-> sl, pool_name |-> pool ] :
      pair \in {<<"SOL", "USDC">>, <<"USDC", "BONK">>, <<"USDC", "SOL">>},
      a \in {0, 250, 1250, 1500, 10000}, sl \in {50, 100},
      pool \in {"Orca", "Raydium", "Unknown"} }

\* Transactions an OpportunityScore may have been computed for, besides the
\* one make_decision is given.
EvalScoredTransactions ==
    { [ token_in |-> "USDC", token_out |-> "BONK", amount_in |-> a,
        estimated_amount_out |-> 5000, slippage |-> 400, pool_name |-> "Raydium" ] :
      a \in {375, 376} }

\* AgentDecisions around the thresholds of calculate_score, with every kind of
\* action and risk string.
EvalDecisions ==
    { [opportunity_score |-> o, action |-> "enter", risk_level |-> "low"] :
      o \in {50, 70, 71, 80, 81, 85, 86, 90, 91} }
    \cup
    { [opportunity_score |-> 90, action |-> a, risk_level |-> r] :
      a \in {"enter", "skip", "Enter"}, r \in {"low", "medium", "high", "extreme"} }

\* OpportunityScorers built from several configurations.
EvalScorers ==
    { OpportunityScorer_new(m, r) : m \in {0, 80, 86}, r \in {0, 2, 3} }

\* Option<String> arguments: a serialized snapshot or None.
EvalSnapshots == {None, Some("json")}

\* A program that builds a RigAgent, an OpportunityScorer and a DecisionMaker
\* from some configuration and calls one of their methods directly.
InitEvaluator ==
    /\ simulation_mode = FALSE
    /\ agent_configured \in BOOLEAN
    /\ opportunity_scorer \in EvalScorers
    /\ decision_maker \in { DecisionMaker_new(m) : m \in {1500, min_profitability} }
    /\ ctrl_c = "cancelled"
    /\ shutdown_channel = 0
    /\ scanner = "cancelled"
    /\ cause = "none"
    /\ item = None
    /\ pending = None
    /\ tx_channel = << >>
    /\ consumer = "example"
    /\ exit_reason = "none"
    /\ transaction = None
    /\ market_data = None
    /\ sentiment = None
    /\ agent_decision = None
    /\ opportunity_score = None
    /\ trade_decision = None
    /\ tx_signature = None
    /\ trades = << >>
    /\ log_file = None
    /\ executor = <<"Idle">>
    /\ router_calls = << >>
    /\ oracle_calls = << >>
    /\ telegram = TelegramNotifier_new(None, None)
    /\ notifications = << >>
    /\ inflight = 0
    /\ sent = 0
    /\ received = 0
    /\ fails = 0
    /\ waits = 0
    /\ emitted = 0
    /\ call_result = None
    /\ call_args = None

evaluator_frame ==
    UNCHANGED <<config_vars, ctrl_c, shutdown_channel, stream_vars, tx_channel,
                sent, consumer, exit_reason, transaction, market_data, sentiment,
                agent_decision, opportunity_score, trade_decision, tx_signature,
                trades, log_file, executor, router_calls, inflight, received>>

\* rig_agent.evaluate_opportunity(&tx, market_data, sentiment_data).await
CallEvaluateOpportunity(tx, md, sd, remote, random_factor) ==
    /\ consumer = "example"
    /\ call_args = None
    /\ call_args' = Some([ op |-> "evaluate_opportunity", transaction |-> tx,
                           market_data |-> md, sentiment_data |-> sd,
                           remote |-> remote, random_factor |-> random_factor ])
    /\ call_result' = Some(evaluate_opportunity(agent_configured, tx, remote, random_factor))
    /\ oracle_calls' = <<OracleCall(agent_configured, tx, md, sd)>>
    /\ UNCHANGED notifications
    /\ evaluator_frame

\* opportunity_scorer.calculate_score(&tx, &agent_decision, market_data)
CallCalculateScore(tx, decision, md) ==
    /\ consumer = "example"
    /\ call_args = None
    /\ call_args' = Some([ op |-> "calculate_score", transaction |-> tx,
                           agent_decision |-> decision, market_data |-> md ])
    /\ call_result' = Some(calculate_score(opportunity_scorer, tx, decision, md))
    /\ UNCHANGED <<oracle_calls, notifications>>
    /\ evaluator_frame

\* opportunity_scorer.should_execute(&score)
CallShouldExecute(score) ==
    /\ consumer = "example"
    /\ call_args = None
    /\ call_args' = Some([op |-> "should_execute", score |-> score])
    /\ call_result' = Some(should_execute(opportunity_scorer, score))
    /\ UNCHANGED <<oracle_calls, notifications>>
    /\ evaluator_frame

\* decision_maker.make_decision(&tx, &score, &agent_decision)
CallMakeDecision(tx, score, decision) ==
    /\ consumer = "example"
    /\ call_args = None
    /\ call_args' = Some([ op |-> "make_decision", transaction |-> tx,
                           score |-> score, agent_decision |-> decision ])
    /\ call_result' = Some(make_decision(decision_maker, tx, score, decision))
    /\ UNCHANGED <<oracle_calls, notifications>>
    /\ evaluator_frame

NextEvaluator ==
    \/ /\ call_args = None
       /\ \E tx \in HeuristicTransactions, md \in EvalSnapshots, sd \in EvalSnapshots,
             remote \in RemoteOutcomes, random_factor \in RandomFactors :
              CallEvaluateOpportunity(tx, md, sd, remote, random_factor)
    \/ /\ call_args = None
       /\ \E tx \in EvalTransactions, decision \in EvalDecisions, md \in EvalSnapshots :
              CallCalculateScore(tx, decision, md)
    \/ /\ call_args = None
       /\ \E tx \in EvalScoredTransactions, decision \in EvalDecisions :
              CallShouldExecute(calculate_score(opportunity_scorer, tx, decision, None))
    \/ /\ call_args = None
       /\ \E tx \in EvalTransactions, scored \in EvalScoredTransactions,
             d1 \in EvalDecisions, action \in {"enter", "skip", "Enter"} :
              \E stx \in {tx, scored} :
                  CallMakeDecision(tx, calculate_score(opportunity_scorer, stx, d1, None),
                      [opportunity_score |-> 90, action |-> action, risk_level |-> "low"])

SpecEvaluator == InitEvaluator /\ [][NextEvaluator]_vars

\* ------------------------------------------ direct calls of the scanner

\* Decoded swaps of SOL (9 decimals) for USDC (6 decimals) with every kind of
\* expected-output hint: absent, zero, below, equal to and above the actual
\* output (0, 0.1, 1.9, 2.0, 2.1 and 5.0 USDC).
ScannerSwaps ==
    { [ token_in     |-> [symbol |-> Some("SOL"),  mint |-> "So11", decimals |-> 9],
        token_out    |-> [symbol |-> sym, mint |-> "EPjF", decimals |-> 6],
        amount_in    |-> ain,
        amount_out   |-> out,
        expected_out |-> hint ] :
      sym \in {Some("USDC"), None}, ain \in {1000000000, 2000000000},
      out \in {0, 100000, 1900000, 2000000, 2100000, 5000000},
      hint \in {None, Some(0), Some(1000000), Some(2000000)} }

\* The ListenTransactions handed to MempoolScanner::process_transaction.
ScannerTransactions ==
    { [signature |-> "decoded", dex |-> dex, swap_info |-> Some(sw)] :
      dex \in {Some("Jupiter"), None}, sw \in ScannerSwaps }
        \cup {SlotItem(None), ReconnectingItem}

\* Raw amounts calculate_slippage is called with.
SlippageHints == {None, Some(0), Some(1), Some(200), Some(1000)}

SlippageActuals == {0, 1, 190, 200, 210, 1000}

component_frame ==
    /\ evaluator_frame
    /\ UNCHANGED <<oracle_calls, notifications>>

\* self.process_transaction(tx).await of the scanner
CallProcessTransaction(tx) ==
    /\ consumer = "example"
    /\ call_args = None
    /\ call_args' = Some([op |-> "process_transaction", tx |-> tx])
    /\ call_result' = Some(ScannerProcess(tx))
    /\ component_frame

\* calculate_slippage(expected, actual)
CallCalculateSlippage(expected, actual) ==
    /\ consumer = "example"
    /\ call_args = None
    /\ call_args' = Some([ op |-> "calculate_slippage", expected |-> expected,
                           actual |-> actual ])
    /\ call_result' = Some(calculate_slippage(expected, actual))
    /\ component_frame

NextScanner ==
    \/ /\ call_args = None
       /\ \E tx \in ScannerTransactions : CallProcessTransaction(tx)
    \/ /\ call_args = None
       /\ \E expected \in SlippageHints, actual \in SlippageActuals :
              CallCalculateSlippage(expected, actual)

SpecScanner == InitExecutor /\ [][NextScanner]_vars

\* ------------------------------ scanner output handed to make_decision

\* Decoded swaps of 1000 or 2000 USDC for SOL whose output is at, below and far
\* from the expected output: slippage 0, 5%, 65%, 70%, 95%, 100% and above.
MinOutSwaps ==
    { [ token_in     |-> [symbol |-> Some("USDC"), mint |-> "EPjF", decimals |-> 6],
        token_out    |-> [symbol |-> Some("SOL"),  mint |-> "So11", decimals |-> 9],
        amount_in    |-> ain,
        amount_out   |-> out,
        expected_out |-> hint ] :
      ain \in {1000000000, 2000000000},
      out \in {0, 100000000, 600000000, 700000000, 1900000000, 2000000000},
      hint \in {None, Some(300000000), Some(2000000000)} }

\* AgentDecisions the oracle answers the swap with.
MinOutDecisions ==
    { [opportunity_score |-> 90, action |-> "enter", risk_level |-> "low"],
      [opportunity_score |-> 85, action |-> "enter", risk_level |-> "medium"],
      [opportunity_score |-> 90, action |-> "skip",  risk_level |-> "low"] }

\* scanner.process_transaction(tx), then calculate_score and make_decision on
\* the SwapTransaction, then to_raw_amount(decision.expected_min_out, ..) as
\* simulate_transaction and execute_trade compute min_out_raw.
CallDecideOnScanned(tx, decision) ==
    /\ consumer = "example"
    /\ call_args = None
    /\ IsSome(ScannerProcess(tx))
    /\ LET swap_tx == ScannerProcess(tx).val
           score   == calculate_score(opportunity_scorer, swap_tx, decision, None)
           made    == make_decision(decision_maker, swap_tx, score, decision)
       IN  /\ call_args' = Some([ op |-> "decide_on_scanned", transaction |-> swap_tx,
                                  score |-> score, agent_decision |-> decision ])
           /\ call_result' =
                  Some([ decision    |-> made,
                         min_out_raw |->
                             IF IsSome(made)
                             THEN Some(to_raw_amount(made.val.expected_min_out,
                                                     tx.swap_info.val.token_out.decimals))
                             ELSE None ])
    /\ component_frame

NextMinOut ==
    /\ call_args = None
    /\ \E swap_info \in MinOutSwaps, decision \in MinOutDecisions :
           CallDecideOnScanned(SlotItem(Some(swap_info)), decision)

SpecMinOut == InitExecutor /\ [][NextMinOut]_vars

\* ------------------------------------------- direct calls of the logger

\* TradeLogs as the two arms of the execute_trade match build them.
LogEntries ==
    { [ success |-> TRUE, tx_signature |-> Some("signature"),
        amount_out |-> Some(35000000), strategy |-> "sandwich" ],
      [ success |-> TRUE, tx_signature |-> Some("SIM_TX_SIGNATURE"),
        amount_out |-> Some(35000000), strategy |-> "arbitrage" ],
      [ success |-> FALSE, tx_signature |-> None, amount_out |-> None,
        strategy |-> "snipe" ] }

logger_frame ==
    UNCHANGED <<config_vars, ctrl_c, shutdown_channel, stream_vars, tx_channel,
                sent, consumer, exit_reason, call_vars, inflight, received>>

\* logger.log_trade(log_entry).await, on a file that did not exist when the
\* program started
CallLogTrade(log_entry, io) ==
    /\ consumer = "example"
    /\ Len(trades) < MaxLogged
    /\ LET written == log_trade(log_file, log_entry, io)
       IN  /\ log_file' = written.file
           /\ trades' = IF IsOk(written.result) THEN Append(trades, log_entry)
                        ELSE trades
           /\ call_result' = Some(written.result)
    /\ call_args' = Some([op |-> "log_trade", log_entry |-> log_entry, io |-> io])
    /\ logger_frame

\* logger.get_trade_history().await
CallGetTradeHistory ==
    /\ consumer = "example"
    /\ call_args' = Some([op |-> "get_trade_history"])
    /\ call_result' = Some(get_trade_history(log_file))
    /\ UNCHANGED <<trades, log_file>>
    /\ logger_frame

NextLogger ==
    \/ \E log_entry \in LogEntries, io \in LogFaults : CallLogTrade(log_entry, io)
    \/ CallGetTradeHistory

SpecLogger == InitExecutor /\ [][NextLogger]_vars

\* ------------------------------------ direct calls of the risk analyzer

\* config.max_risk_level and other u8 values given to RiskAnalyzer::new
RiskTolerances == {0, 1, 2, 3, 4, 255}

\* Risk levels handed to is_within_risk_tolerance
RiskLevels == 0..4

\* SwapTransactions on each side of the size and slippage thresholds.
RiskTransactions ==
    { [ token_in |-> "USDC", token_out |-> "SOL", amount_in |-> a,
        estimated_amount_out |-> 10000, slippage |-> sl, pool_name |-> "Orca" ] :
      a \in {500, 1000, 10000, 10001}, sl \in {50, 100, 300, 301} }

\* No sentiment, and sentiment scores on each side of -0.3 and 0.7.
RiskSentiments ==
    {None} \cup { Some([token |-> "SOL", sentiment_score |-> sc]) : sc \in {-31, 0, 71} }

\* No market snapshot, one without a price for SOL, a calm and a volatile one.
RiskMarkets ==
    { None,
      Some([prices |-> <<[token |-> "BONK", change_24h |-> 2500]>>]),
      Some([prices |-> <<[token |-> "BONK", change_24h |-> 2500],
                         [token |-> "SOL", change_24h |-> -1000]>>]),
      Some([prices |-> <<[token |-> "SOL", change_24h |-> -1001],
                         [token |-> "SOL", change_24h |-> 0]>>]) }

\* RiskAnalyzer::new(risk_tolerance).analyze_risk(&transaction, sentiment, market_data)
CallAnalyzeRisk(risk_tolerance, tx, sentiment_data, market, overflow_checks) ==
    /\ consumer = "example"
    /\ call_args = None
    /\ call_args' = Some([ op |-> "analyze_risk", risk_tolerance |-> risk_tolerance,
                           transaction |-> tx, sentiment |-> sentiment_data,
                           market_data |-> market,
                           overflow_checks |-> overflow_checks ])
    /\ call_result' = Some(analyze_risk(RiskAnalyzer_new(risk_tolerance), tx,
                                        sentiment_data, market, overflow_checks))
    /\ component_frame

\* RiskAnalyzer::new(risk_tolerance).is_within_risk_tolerance(risk_level)
CallIsWithinRiskTolerance(risk_tolerance, risk_level) ==
    /\ consumer = "example"
    /\ call_args = None
    /\ call_args' = Some([ op |-> "is_within_risk_tolerance",
                           risk_tolerance |-> risk_tolerance,
                           risk_level |-> risk_level ])
    /\ call_result' = Some(is_within_risk_tolerance(RiskAnalyzer_new(risk_tolerance),
                                                    risk_level))
    /\ component_frame

NextRisk ==
    \/ /\ call_args = None
       /\ \E tx \in RiskTransactions, sentiment_data \in RiskSentiments,
             market \in RiskMarkets, overflow_checks \in OverflowChecks :
              CallAnalyzeRisk(2, tx, sentiment_data, market, overflow_checks)
    \/ /\ call_args = None
       /\ \E risk_tolerance \in RiskTolerances, risk_level \in RiskLevels :
              CallIsWithinRiskTolerance(risk_tolerance, risk_level)

SpecRisk == InitExecutor /\ [][NextRisk]_vars

\* ------------------------------------- process_transaction called directly

\* A swap of 50000 USDC for SOL at 5% slippage on Orca, 1000 SOL estimated.
ExampleSwap ==
    [ token_in  |-> "USDC", token_out |-> "SOL", amount_in |-> 5000000,
      estimated_amount_out |-> 100000, slippage |-> 500, pool_name |-> "Orca" ]

\* A swap of 10 SOL for USDC at 1% slippage on Raydium.
SmallSwap ==
    [ token_in  |-> "SOL", token_out |-> "USDC", amount_in |-> 1000,
      estimated_amount_out |-> 150000, slippage |-> 100, pool_name |-> "Raydium" ]

\* A swap of 20000 USDC for SOL at 0.5% slippage on a pool the heuristic does
\* not know: heuristic score 0.75 before the random term.
CalmSwap ==
    [ token_in  |-> "USDC", token_out |-> "SOL", amount_in |-> 2000000,
      estimated_amount_out |-> 40000, slippage |-> 50, pool_name |-> "Unknown" ]

ProcessTransactions == {ExampleSwap, SmallSwap, CalmSwap}

\* The AgentDecision the remote agent answers the example swap with.
ExampleAgentDecision ==
    [opportunity_score |-> 92, action |-> "enter", risk_level |-> "high"]

ProcessRemotes ==
    RemoteOutcomes \cup { [kind |-> "decision", decision |-> ExampleAgentDecision] }

\* Thresholds the scorer is built with: the defaults, and max_risk_level 3
\* and 0.
ProcessScorers ==
    { OpportunityScorer_new(min_opportunity_score, max_risk_level),
      OpportunityScorer_new(min_opportunity_score, 3),
      OpportunityScorer_new(min_opportunity_score, 0) }

\* Notifier configurations: nothing set, only the token, only the chat, both.
TelegramNotifiers ==
    { TelegramNotifier_new(t, c) : t \in {None, Some("token")}, c \in {None, Some("chat")} }

\* One process_transaction call on a transaction handed to it directly; no
\* scanner, no signal task.
InitProcess ==
    /\ simulation_mode \in BOOLEAN
    /\ agent_configured \in BOOLEAN
    /\ ctrl_c = "cancelled"
    /\ shutdown_channel = 0
    /\ scanner = "cancelled"
    /\ cause = "none"
    /\ item = None
    /\ pending = None
    /\ tx_channel = << >>
    /\ consumer = "market"
    /\ exit_reason = "none"
    /\ transaction \in { Some(tx) : tx \in ProcessTransactions }
    /\ agent_decision = None
    /\ opportunity_score = None
    /\ trade_decision = None
    /\ tx_signature = None
    /\ trades = << >>
    /\ log_file = None
    /\ executor = <<"Idle">>
    /\ router_calls = << >>
    /\ inflight = 1
    /\ sent = 0
    /\ received = 1
    /\ fails = 0
    /\ waits = 0
    /\ emitted = 0
    /\ call_result = None
    /\ call_args = None
    /\ opportunity_scorer \in ProcessScorers
    /\ decision_maker = DecisionMaker_new(min_profitability)
    /\ market_data = None
    /\ sentiment = None
    /\ oracle_calls = << >>
    /\ telegram \in TelegramNotifiers
    /\ notifications = << >>

NextProcess ==
    \/ MarketDataDone(TRUE)
    \/ SentimentDone(TRUE)
    \/ \E remote \in ProcessRemotes, random_factor \in RandomFactors :
           EvaluateDone(remote, random_factor)
    \/ \E response \in TelegramResponses : NotifyDetectedDone(response)
    \/ \E fault \in RouterFaults : SimulateDone(fault)
    \/ \E fault \in RouterFaults : ExecuteDone(fault)
    \/ \E ok \in BOOLEAN : LogDone(ok)
    \/ \E response \in TelegramResponses : NotifyExecutedDone(response)

SpecProcess == InitProcess /\ [][NextProcess]_vars

\* ------------------------------------------------------------------ claims

\* C1: a TradeDecision exists for a transaction only if the OpportunityScore
\* computed for that transaction has mev_score >= min_opportunity_score and
\* risk_level <= max_risk_level, and the AgentDecision's action is "enter".
C1_DecisionOnlyThroughGates ==
    IsSome(trade_decision) =>
        /\ IsSome(transaction)
        /\ IsSome(agent_decision)
        /\ opportunity_score = Some(calculate_score(opportunity_scorer, transaction.val,
                                                    agent_decision.val, market_data))
        /\ opportunity_score.val.mev_score >= min_opportunity_score
        /\ opportunity_score.val.risk_level <= max_risk_level
        /\ agent_decision.val.action = "enter"

\* A decision has been emitted from a remote response and is about to be simulated.
C1_Witness ==
    /\ IsSome(trade_decision)
    /\ consumer = "simulate"
    /\ agent_decision.val.risk_level = "low"

ExecutorPaths ==
    { <<"Idle">>,
      <<"Idle", "Simulating">>,
      <<"Idle", "Simulating", "SimulationFailed">>,
      <<"Idle", "Simulating", "SimulationPassed", "Executing">>,
      <<"Idle", "Simulating", "SimulationPassed", "Executing", "Committed">>,
      <<"Idle", "Simulating", "SimulationPassed", "Executing", "ExecutionFailed">> }

Last(seq) == seq[Len(seq)]

\* C2: the executor follows Idle -> Simulating -> {SimulationFailed,
\* SimulationPassed} -> Executing -> {Committed, ExecutionFailed} and nothing
\* else: execute_trade is awaited only after simulate_transaction passed, and
\* a failed simulation ends the decision.
C2_SimulateThenCommit ==
    /\ executor \in ExecutorPaths
    /\ consumer = "simulate" <=> Last(executor) = "Simulating"
    /\ consumer = "execute" <=> Last(executor) = "Executing"
    /\ Last(executor) = "SimulationFailed" => consumer \in {"select", "exited"}

\* A simulation has failed and the decision was dropped without execute_trade.
C2_Witness ==
    /\ executor = <<"Idle", "Simulating", "SimulationFailed">>
    /\ consumer = "select"

Count(seq, x) == Cardinality({i \in 1..Len(seq) : seq[i] = x})

SwapCalls == Count(router_calls, "swap") + Count(router_calls, "swap_with_priority")

\* C3: at most one TradeDecision per dequeued transaction, at most one
\* simulate and one execute per decision, at most one swap submission per
\* transaction, and nothing is invoked for a decision once its execution failed.
C3_NoRetry ==
    /\ [](/\ Count(executor, "Simulating") <= 1
          /\ Count(executor, "Executing") <= 1
          /\ SwapCalls <= 1)
    /\ [][ /\ (IsSome(trade_decision') /\ trade_decision' # trade_decision)
                => (consumer = "evaluate" /\ ~IsSome(trade_decision))
           /\ Last(executor) = "ExecutionFailed"
                => (executor' = executor \/ executor' = <<"Idle">>) /\ router_calls' \in {router_calls, << >>}
         ]_vars

\* An execution has failed after its swap was submitted, and the failed trade
\* is being logged.
C3_Witness ==
    /\ Last(executor) = "ExecutionFailed"
    /\ SwapCalls = 1
    /\ consumer = "log"

\* C4: in simulation (dry-run) mode execute_trade returns the placeholder
\* signature "SIM_TX_SIGNATURE" for every TradeDecision, whatever its strategy
\* and whether or not its symbols are mapped, and calls nothing on the router.
C4_DryRunExecute ==
    (simulation_mode /\ Count(executor, "Executing") = 1) =>
        /\ call_result = Some(Ok("SIM_TX_SIGNATURE"))
        /\ router_calls = << >>
        /\ Last(executor) = "Committed"

\* A priority-fee leg with an unmapped symbol has been executed in dry-run mode.
C4_Witness ==
    /\ simulation_mode
    /\ Count(executor, "Executing") = 1
    /\ trade_decision.val.token_in = "DOGE"
    /\ trade_decision.val.strategy = "sandwich_front"

\* C5: the consumer loop processes one transaction to the end before it
\* dequeues the next: at most one transaction is in flight in every reachable
\* state, a record is dequeued only when none is, and a simulate or execute
\* call is in progress only for that one transaction.
C5_OneInFlight ==
    /\ [](/\ inflight \in {0, 1}
          /\ (inflight = 1 <=> consumer \notin {"select", "exited"})
          /\ (consumer \in {"simulate", "execute"} =>
                  /\ IsSome(transaction) /\ IsSome(trade_decision)
                  /\ Count(executor, "Simulating") + Count(executor, "Executing")
                         = IF consumer = "simulate" THEN 1 ELSE 2))
    /\ [][received' # received =>
              /\ inflight = 0 /\ inflight' = 1
              /\ received' = received + 1
              /\ consumer = "select"]_vars

\* A second record waits in the queue while the first one is being executed.
C5_Witness ==
    /\ consumer = "execute"
    /\ inflight = 1
    /\ received = 1
    /\ Len(tx_channel) >= 1
    /\ ctrl_c = "done"

\* C6: a cancellation signal that arrives while a transaction is processed
\* does not interrupt it: the signal stays in the shutdown channel, the
\* processing steps go on, and the loop exits on it only from its select!.
C6_ShutdownBetweenTransactions ==
    /\ [][consumer' = "exited" => consumer \in {"select", "exited"}]_vars
    /\ [][(shutdown_channel > 0 /\ inflight = 1) =>
              /\ shutdown_channel' = shutdown_channel
              /\ consumer' # "exited"
              /\ exit_reason' = "none"]_vars
    /\ [][(ctrl_c' # ctrl_c) => UNCHANGED <<consumer, call_vars, trades, inflight>>]_vars
    /\ [](shutdown_channel > 0 /\ consumer = "simulate" =>
              ENABLED (\E fault \in RouterFaults : SimulateDone(fault)))
    /\ [](shutdown_channel > 0 /\ consumer = "execute" =>
              ENABLED (\E fault \in RouterFaults : ExecuteDone(fault)))
    /\ [](shutdown_channel > 0 /\ consumer = "log" =>
              ENABLED (\E ok \in BOOLEAN : LogDone(ok)))

\* The signal is pending and the trade that was in flight has been committed
\* and written to the trade log.
C6_Witness ==
    /\ shutdown_channel = 1
    /\ consumer = "notify_executed"
    /\ Last(executor) = "Committed"
    /\ Len(trades) = 1

\* C7: the queue never holds more than ChannelCapacity records; a producer at
\* its send with the queue full stays there, holding its record, until the
\* consumer dequeues; while the consumer is alive, sent = received + queued.
C7_Backpressure ==
    /\ [](/\ Len(tx_channel) <= ChannelCapacity
          /\ (~ReceiverDropped => sent = received + Len(tx_channel)))
    /\ [][(scanner = "send" /\ Len(tx_channel) = ChannelCapacity /\ ~ReceiverDropped) =>
              \/ /\ scanner' = "send" /\ pending' = pending /\ sent' = sent
                 /\ Len(tx_channel') >= ChannelCapacity - 1
              \/ ReceiverDropped' \/ scanner' = "cancelled"]_vars

\* The queue is full, the producer is at its send with one more record, and
\* the consumer has already dequeued some.
C7_Witness ==
    /\ Len(tx_channel) = ChannelCapacity
    /\ scanner = "send"
    /\ IsSome(pending)
    /\ ~ReceiverDropped
    /\ received = MaxReceived

\* C8: when a subscription succeeds after N consecutive connect/subscribe
\* failures, N backoff waits have elapsed, and nothing the stream yielded
\* during the failures became a record: the markers are dropped by the scanner
\* and no send happened.
C8_BackoffPerFailure ==
    /\ scanner \in {"connect", "subscribe", "subscribed"} => waits = fails
    /\ (scanner = "backoff" /\ cause # "reconnecting") => waits + 1 = fails
    /\ (fails > 0 /\ scanner = "item" /\ IsSome(item)) => ~IsSome(ScannerProcess(item.val))
    /\ fails > 0 => scanner # "send"
    /\ emitted = 0

\* The subscription has just succeeded after MaxFails failures.
C8_Witness ==
    /\ scanner = "subscribed"
    /\ fails = MaxFails
    /\ waits = MaxFails

C9_StreamNeverEnds ==
    /\ [](scanner # "returned")
    /\ [](scanner = "item" => IsSome(item))
    /\ [][fails' > fails => (scanner \in {"connect", "subscribe"} /\ scanner' = "backoff")]_vars
    /\ [][(scanner = "subscribed" /\ scanner' \notin {"subscribed", "item", "cancelled"}) =>
              (scanner' = "backoff" /\ cause' = "reconnecting")]_vars
    /\ [][(scanner = "backoff" /\ scanner' # "backoff") =>
              scanner' \in {"item", "cancelled"}]_vars
    /\ (scanner = "backoff") ~> (scanner \in {"connect", "cancelled"})

\* A fresh connect attempt follows MaxFails failures in a row.
C9_Witness ==
    /\ scanner = "connect"
    /\ fails = MaxFails
    /\ waits = MaxFails
    /\ ctrl_c = "waiting"

\* C11: evaluate_opportunity returns the heuristic decision as Ok, never an
\* Err, when no remote agent is configured and when the remote agent's
\* response does not parse as an AgentDecision.
C11_HeuristicFallback ==
    (/\ IsSome(call_args)
     /\ call_args.val.op = "evaluate_opportunity"
     /\ (~agent_configured \/ call_args.val.remote.kind = "malformed")) =>
        call_result = Some(Ok(simulate_agent_decision(call_args.val.transaction,
                                                      call_args.val.random_factor)))

\* A configured agent answered with text that is not an AgentDecision.
C11_Witness ==
    /\ IsSome(call_args)
    /\ call_args.val.op = "evaluate_opportunity"
    /\ agent_configured
    /\ call_args.val.remote.kind = "malformed"
    /\ IsOk(call_result.val)

\* C12: when the remote call itself fails, evaluate_opportunity returns the
\* heuristic decision as Ok.
C12_RemoteFailureFallsBack ==
    (/\ IsSome(call_args)
     /\ call_args.val.op = "evaluate_opportunity"
     /\ agent_configured
     /\ call_args.val.remote.kind = "error") =>
        call_result = Some(Ok(simulate_agent_decision(call_args.val.transaction,
                                                      call_args.val.random_factor)))

\* C13: a failed market-data or sentiment fetch does not abort the
\* transaction: the snapshot is None, evaluate_opportunity is still called,
\* once, with the snapshots as they are, and the context sent to a configured
\* agent has a section for a snapshot exactly when it is present.
C13_AbsentSnapshotsOmitted ==
    /\ [][consumer = "market" => consumer' \in {"market", "sentiment"}]_vars
    /\ [][consumer = "sentiment" => consumer' \in {"sentiment", "evaluate"}]_vars
    /\ [][(consumer = "evaluate" /\ consumer' # "evaluate") =>
              /\ Len(oracle_calls') = 1
              /\ oracle_calls'[1].market_data = market_data
              /\ oracle_calls'[1].sentiment_data = sentiment]_vars
    /\ [](\A i \in 1..Len(oracle_calls) :
              LET call == oracle_calls[i]
              IN  /\ IsSome(call.context) <=> agent_configured
                  /\ IsSome(call.context) =>
                         call.context.val =
                             <<"Transaction Details">>
                             \o (IF call.market_data = None THEN << >> ELSE <<"Market Data">>)
                             \o (IF call.sentiment_data = None THEN << >> ELSE <<"Sentiment Data">>))

\* Both fetches failed; the remote agent was asked with the transaction
\* details alone, and the transaction went on to a decision.
C13_Witness ==
    /\ consumer = "notify_detected"
    /\ market_data = None
    /\ sentiment = None
    /\ Len(oracle_calls) = 1
    /\ oracle_calls[1].context = Some(<<"Transaction Details">>)

\* The direct call in this state is a call of op.
Called(op) == IsSome(call_args) /\ call_args.val.op = op

\* C14: for every score and every configured pair of thresholds,
\* should_execute(score) is true exactly when score.mev_score is at least the
\* scorer's min_opportunity_score and score.risk_level at most its
\* max_risk_level; in the pipeline the scorer holds the configured values.
C14_ShouldExecuteIff ==
    /\ Called("should_execute") =>
           (call_result.val <=>
               /\ call_args.val.score.mev_score >= opportunity_scorer.min_opportunity_score
               /\ call_args.val.score.risk_level <= opportunity_scorer.max_risk_level)
    /\ opportunity_scorer \in EvalScorers

\* A score the default thresholds accept is rejected by a stricter scorer.
C14_Witness ==
    /\ Called("should_execute")
    /\ opportunity_scorer = OpportunityScorer_new(86, 0)
    /\ call_args.val.score.mev_score = 85
    /\ call_args.val.score.risk_level = 1
    /\ call_result = Some(FALSE)

\* C15: should_execute is monotonic in mev_score: if it holds for a score, it
\* holds for every score with the same risk_level and a greater mev_score.
C15_ShouldExecuteMonotonic ==
    (Called("should_execute") /\ call_result.val) =>
        \A b \in 0..100 :
            b >= call_args.val.score.mev_score =>
                should_execute(opportunity_scorer,
                               [call_args.val.score EXCEPT !.mev_score = b])

\* should_execute held at the threshold itself.
C15_Witness ==
    /\ Called("should_execute")
    /\ call_result = Some(TRUE)
    /\ call_args.val.score.mev_score = opportunity_scorer.min_opportunity_score
    /\ opportunity_scorer.min_opportunity_score = 80

\* C16: make_decision returns None exactly when the action is not "enter" or
\* score.profitability is below min_profitability; otherwise it returns one
\* TradeDecision; its result is an Option, never an error.
C16_MakeDecisionIff ==
    Called("make_decision") =>
        /\ call_result.val.tag \in {"None", "Some"}
        /\ (call_result.val = None <=>
               \/ call_args.val.agent_decision.action # "enter"
               \/ call_args.val.score.profitability < decision_maker.min_profitability)

\* A profitability equal to the minimum is accepted.
C16_Witness ==
    /\ Called("make_decision")
    /\ call_args.val.agent_decision.action = "enter"
    /\ call_args.val.score.profitability = decision_maker.min_profitability
    /\ IsSome(call_result.val)

\* C17: the strategy of a TradeDecision is "sandwich" when slippage > 0.03 and
\* amount_in > 5.0, otherwise "snipe" when mev_score > 0.85, otherwise
\* "arbitrage"; sandwich takes precedence and the comparisons are strict.
C17_StrategySelection ==
    (Called("make_decision") /\ IsSome(call_result.val)) =>
        LET tx       == call_args.val.transaction
            mev      == call_args.val.score.mev_score
            strategy == call_result.val.val.strategy
        IN  /\ strategy \in {"sandwich", "snipe", "arbitrage"}
            /\ strategy = "sandwich" <=> (tx.slippage > 300 /\ tx.amount_in > 500)
            /\ strategy = "snipe" <=> (~(tx.slippage > 300 /\ tx.amount_in > 500) /\ mev > 85)
            /\ (tx.slippage = 500 /\ tx.amount_in = 1000) => strategy = "sandwich"
            /\ (tx.slippage = 100 /\ tx.amount_in = 100 /\ mev = 90) => strategy = "snipe"
            /\ (tx.slippage = 100 /\ tx.amount_in = 100 /\ mev = 50) => strategy = "arbitrage"
            /\ (tx.slippage = 300 \/ tx.amount_in = 500) => strategy # "sandwich"
            /\ mev = 85 => strategy # "snipe"

\* Both rules hold and sandwich is chosen.
C17_Witness ==
    /\ Called("make_decision")
    /\ IsSome(call_result.val)
    /\ call_args.val.transaction.slippage = 301
    /\ call_args.val.transaction.amount_in = 501
    /\ call_args.val.score.mev_score = 90
    /\ call_result.val.val.strategy = "sandwich"

\* C18: an emitted TradeDecision has expected_min_out =
\* estimated_amount_out * (1 - 1.5 * slippage) (100 and 0.02 give 97.0), its
\* token_in, token_out and amount_in are the transaction's, and its
\* confidence_score and risk_level are the score's.
C18_DecisionFields ==
    (Called("make_decision") /\ IsSome(call_result.val)) =>
        LET tx == call_args.val.transaction
            sc == call_args.val.score
            d  == call_result.val.val
        IN  /\ d.expected_min_out
                   = 20000 * tx.estimated_amount_out
                         - 3 * tx.slippage * tx.estimated_amount_out
            /\ (tx.estimated_amount_out = 10000 /\ tx.slippage = 200) =>
                   d.expected_min_out = 9700 * 20000
            /\ d.token_in = tx.token_in
            /\ d.token_out = tx.token_out
            /\ d.amount_in = tx.amount_in
            /\ d.confidence_score = sc.confidence
            /\ d.risk_level = sc.risk_level

\* The decision for estimated_amount_out 100 and slippage 0.02, made from a
\* score that was computed for another transaction.
C18_Witness ==
    /\ Called("make_decision")
    /\ IsSome(call_result.val)
    /\ call_args.val.transaction.estimated_amount_out = 10000
    /\ call_args.val.transaction.slippage = 200
    /\ call_args.val.score.profitability = 1504
    /\ call_result.val.val.expected_min_out = 194000000

\* C19: the score calculate_score returns depends on the AgentDecision and
\* the SwapTransaction alone: it is the same for every market_data argument
\* and every scorer configuration, and the call changes no state of the
\* scorer or of anything else.
C19_ScorerPure ==
    /\ [](Called("calculate_score") =>
              \A scorer \in EvalScorers, md \in EvalSnapshots :
                  calculate_score(scorer, call_args.val.transaction,
                                  call_args.val.agent_decision, md) = call_result.val)
    /\ [][Called("calculate_score")' =>
              UNCHANGED <<config_vars, transaction, market_data, sentiment,
                          agent_decision, opportunity_score, trade_decision,
                          trades, oracle_calls, router_calls>>]_vars

\* calculate_score was given a market snapshot by a scorer with non-default
\* thresholds.
C19_Witness ==
    /\ Called("calculate_score")
    /\ IsSome(call_args.val.market_data)
    /\ opportunity_scorer = OpportunityScorer_new(86, 3)
    /\ call_args.val.agent_decision.opportunity_score = 81

\* C20: calculate_score returns mev_score = opportunity_score; risk_level 1,
\* 2, 3 for "low", "medium", "high" and 0 for any other string; confidence
\* 0.95 above 0.9, else 0.85 above 0.8, else 0.75 above 0.7, else 0.5, with
\* strict comparisons; profitability = slippage * amount_in * 0.01.
C20_ScoreFields ==
    Called("calculate_score") =>
        LET tx == call_args.val.transaction
            ad == call_args.val.agent_decision
            sc == call_result.val
        IN  /\ sc.mev_score = ad.opportunity_score
            /\ ad.risk_level = "low" => sc.risk_level = 1
            /\ ad.risk_level = "medium" => sc.risk_level = 2
            /\ ad.risk_level = "high" => sc.risk_level = 3
            /\ ad.risk_level \notin {"low", "medium", "high"} => sc.risk_level = 0
            /\ ad.opportunity_score > 90 => sc.confidence = 95
            /\ (ad.opportunity_score <= 90 /\ ad.opportunity_score > 80) => sc.confidence = 85
            /\ (ad.opportunity_score <= 80 /\ ad.opportunity_score > 70) => sc.confidence = 75
            /\ ad.opportunity_score <= 70 => sc.confidence = 50
            /\ 100 * sc.profitability <= tx.slippage * tx.amount_in
            /\ tx.slippage * tx.amount_in < 100 * (sc.profitability + 1)

\* A score of exactly 0.9 with an unknown risk string.
C20_Witness ==
    /\ Called("calculate_score")
    /\ call_args.val.agent_decision.opportunity_score = 90
    /\ call_args.val.agent_decision.risk_level = "extreme"
    /\ call_result.val.confidence = 85
    /\ call_result.val.risk_level = 0

\* What the pipeline holds once the example swap has passed the gates: the
\* score passes should_execute, and a TradeDecision with strategy "sandwich"
\* and expected_min_out = estimated_amount_out * 0.925 (18500 / 20000).
C21_Emitted ==
    /\ consumer = "notify_detected"
    /\ agent_decision = Some(ExampleAgentDecision)
    /\ IsSome(opportunity_score)
    /\ opportunity_score.val.mev_score >= 80
    /\ opportunity_score.val.risk_level <= 3
    /\ IsSome(trade_decision)
    /\ trade_decision.val.strategy = "sandwich"
    /\ trade_decision.val.expected_min_out = 18500 * ExampleSwap.estimated_amount_out

\* C21: for the example swap (50000 USDC for SOL, slippage 0.05, Orca), the
\* oracle decision (0.92, enter, high) and thresholds (0.8, 3), should_execute
\* is true and the pipeline emits a TradeDecision with strategy "sandwich" and
\* expected_min_out = estimated_amount_out * 0.925: the evaluation step on
\* that decision can only end with that TradeDecision emitted.
C21_EndToEndExample ==
    (/\ consumer = "evaluate"
     /\ transaction = Some(ExampleSwap)
     /\ agent_configured
     /\ opportunity_scorer = OpportunityScorer_new(80, 3)) =>
        \A random_factor \in RandomFactors :
            LET remote == [kind |-> "decision", decision |-> ExampleAgentDecision]
            IN  /\ ENABLED (EvaluateDone(remote, random_factor) /\ C21_Emitted')
                /\ ~ENABLED (EvaluateDone(remote, random_factor) /\ ~C21_Emitted')

C21_Witness ==
    /\ transaction = Some(ExampleSwap)
    /\ opportunity_scorer = OpportunityScorer_new(80, 3)
    /\ agent_configured
    /\ C21_Emitted

\* The strategies execute_sandwich_leg is called for.
SandwichLegs == {"sandwich_front", "sandwich_back"}

\* C22: outside dry-run mode execute_trade goes through the priority-fee path
\* (swap_with_priority) if and only if the strategy is "sandwich_front" or
\* "sandwich_back"; every other strategy string goes through the standard
\* swap; a successful call has invoked exactly one of the two paths, once.
C22_PriorityPathIffSandwichLeg ==
    (~simulation_mode /\ Count(executor, "Executing") = 1) =>
        LET strategy == trade_decision.val.strategy
            priority == Count(router_calls, "swap_with_priority")
            standard == Count(router_calls, "swap")
        IN  /\ priority > 0 => strategy \in SandwichLegs
            /\ standard > 0 => strategy \notin SandwichLegs
            /\ priority + standard <= 1
            /\ IsOk(call_result.val) =>
                   /\ priority + standard = 1
                   /\ priority = 1 <=> strategy \in SandwichLegs

\* A "sandwich" decision has been executed through the standard swap.
C22_Witness ==
    /\ ~simulation_mode
    /\ Count(executor, "Executing") = 1
    /\ trade_decision.val.strategy = "sandwich"
    /\ call_result = Some(Ok("signature"))
    /\ Last(router_calls) = "swap"

\* The symbols get_token_mint knows.
MappedSymbols == {"SOL", "USDC", "BONK"}

\* C23: simulate_transaction returns an error, with no router call made, when
\* token_in or token_out is not a mapped symbol; an error when the token-info,
\* quote or dry-run call of the router fails; Ok(false), not an error, when
\* the dry run reports a rejection; Ok(true) otherwise.
C23_SimulateClassification ==
    Called("simulate_transaction") =>
        LET decision == call_args.val.decision
            fault    == call_args.val.fault
        IN  IF decision.token_in \notin MappedSymbols
                   \/ decision.token_out \notin MappedSymbols
            THEN /\ call_result.val.tag = "Err"
                 /\ router_calls = << >>
            ELSE IF fault \in {"token_info", "quote", "simulate"}
            THEN call_result.val.tag = "Err"
            ELSE IF fault = "simulate_rejected"
            THEN call_result = Some(Ok(FALSE))
            ELSE call_result = Some(Ok(TRUE))

\* A dry run of a decision with mapped symbols was rejected.
C23_Witness ==
    /\ Called("simulate_transaction")
    /\ call_args.val.fault = "simulate_rejected"
    /\ trade_decision.val.token_in \in MappedSymbols
    /\ trade_decision.val.token_out \in MappedSymbols
    /\ call_result = Some(Ok(FALSE))
    /\ Last(router_calls) = "simulate_swap"

\* The router operations that read and dry-run.
ReadOnlyRouterCalls == {"get_token_info", "get_best_quote", "simulate_swap"}

\* C24: simulate_transaction has no side effect: however often it is called,
\* it invokes only the token-info, quote and dry-run operations of the router,
\* never swap or swap_with_priority, and leaves the executor (its mode), the
\* trade log and the signature untouched.
C24_SimulateNoSideEffect ==
    /\ [](Called("simulate_transaction") =>
              /\ \A i \in 1..Len(router_calls) : router_calls[i] \in ReadOnlyRouterCalls
              /\ SwapCalls = 0)
    /\ [][(call_args' # call_args /\ call_args'.val.op = "simulate_transaction") =>
              UNCHANGED <<simulation_mode, trades, tx_signature>>]_vars

\* A dry run outside dry-run mode has passed, having made its four router calls.
C24_Witness ==
    /\ Called("simulate_transaction")
    /\ ~simulation_mode
    /\ call_result = Some(Ok(TRUE))
    /\ router_calls = <<"get_token_info", "get_token_info", "get_best_quote",
                        "simulate_swap">>

\* C25: every execution failure of a TradeDecision ends the decision and is
\* recorded as a failed trade (success = false) in the trade log: once
\* process_transaction has returned from a failed simulation (a rejection or
\* an error) the log holds the failed record of that decision, and after a
\* failed execute_trade the record handed to log_trade is a failed one.
C25_ExecutionFailuresLogged ==
    /\ (consumer = "select" /\ Last(executor) = "SimulationFailed") =>
           /\ Len(trades) = 1
           /\ trades[1].success = FALSE
    /\ Last(executor) = "ExecutionFailed" =>
           IF consumer = "log"
           THEN ~ENABLED (LogDone(TRUE) /\ (Len(trades') # Len(trades) + 1
                                              \/ Last(trades').success))
           ELSE /\ consumer = "select"
                /\ \A i \in 1..Len(trades) : trades[i].success = FALSE

\* The record that matches the outcome of the execute_trade call just made.
C26_MatchingRecord(record) ==
    IF Last(executor) = "Committed"
    THEN /\ record.success = TRUE
         /\ IsSome(tx_signature)
         /\ record.tx_signature = tx_signature
    ELSE /\ record.success = FALSE
         /\ record.tx_signature = None
         /\ record.amount_out = None

\* C26: each execute_trade call of the pipeline is followed by exactly one
\* trade-log append (one log_trade call) for that decision, and the record
\* matches the call: success = true with the returned signature when
\* execute_trade returned Ok, success = false with no signature and no
\* amount_out when it returned an error.  Nothing is in the log before the
\* call, execute_trade is always followed by log_trade, and log_trade adds at
\* most the one matching record (none only when the write itself fails).
C26_OneLogPerExecute ==
    /\ [](consumer \in {"execute", "log"} =>
              /\ trades = << >>
              /\ Count(executor, "Executing") = 1)
    /\ [](consumer = "log" =>
              /\ Last(executor) \in {"Committed", "ExecutionFailed"}
              /\ ENABLED (LogDone(TRUE) /\ Len(trades') = 1))
    /\ [](Len(trades) <= Count(executor, "Executing"))
    /\ [][consumer = "execute" => consumer' \in {"execute", "log"}]_vars
    /\ [][consumer = "log" =>
              /\ consumer' \in {"log", "notify_executed", "select"}
              /\ \/ trades' = trades
                 \/ /\ Len(trades') = 1
                    /\ C26_MatchingRecord(trades'[1])
                    /\ trades'[1].strategy = trade_decision.val.strategy]_vars

\* A failed execute_trade has been logged as a failed trade.
C26_Witness ==
    /\ consumer = "select"
    /\ Last(executor) = "ExecutionFailed"
    /\ Len(trades) = 1
    /\ trades[1].success = FALSE
    /\ trades[1].tx_signature = None
    /\ trades[1].amount_out = None

\* The notifier has both its bot token and its chat id.
TelegramConfigured == IsSome(telegram.bot_token) /\ IsSome(telegram.chat_id)

\* C27: notifications are best-effort.  Whatever notify_opportunity_detected
\* returns, simulate_transaction is called next and execute_trade can follow
\* it; whatever notify_trade_execution returns, the trade log and the
\* executor outcome stay as they were; and a notifier without bot token or
\* chat id returns Ok without a network call.
C27_NotificationsBestEffort ==
    /\ [][consumer = "notify_detected" =>
              \/ consumer' = "notify_detected"
              \/ /\ consumer' = "simulate"
                 /\ Last(executor') = "Simulating"
                 /\ trade_decision' = trade_decision]_vars
    /\ [](consumer = "simulate" =>
              ENABLED (SimulateDone("none") /\ consumer' = "execute"))
    /\ [][consumer = "notify_executed" =>
              /\ trades' = trades
              /\ executor' = executor
              /\ consumer' \in {"notify_executed", "select"}]_vars
    /\ [](\A i \in 1..Len(notifications) :
              ~TelegramConfigured =>
                  /\ notifications[i].result = Ok("unit")
                  /\ notifications[i].network = << >>)

\* Both notifications of a decision failed, and the trade was executed and
\* logged as a success all the same.
C27_Witness ==
    /\ Len(notifications) = 2
    /\ notifications[1].message = "opportunity_detected"
    /\ notifications[1].result.tag = "Err"
    /\ notifications[2].message = "trade_execution"
    /\ notifications[2].result.tag = "Err"
    /\ Last(executor) = "Committed"
    /\ Len(trades) = 1
    /\ trades[1].success = TRUE

\* The direct call in this state was answered by the heuristic fallback.
HeuristicAnswered ==
    /\ Called("evaluate_opportunity")
    /\ ~agent_configured \/ call_args.val.remote.kind = "malformed"

\* C28: in every decision of the heuristic fallback, action = "enter" iff
\* opportunity_score > 0.7; risk_level = "high" if opportunity_score > 0.85,
\* "medium" if 0.75 < opportunity_score <= 0.85, "low" otherwise; and
\* opportunity_score is size factor (min(amount_in/100, 1) * 0.4) + slippage
\* factor (min(slippage*100, 1) * 0.3) + venue factor + pair factor + a random
\* term of at most 0.2, clamped to [0,1].
C28_HeuristicThresholds ==
    HeuristicAnswered =>
        LET tx     == call_args.val.transaction
            d      == call_result.val.val
            random == call_args.val.random_factor
            venue  == IF tx.pool_name = "Orca" THEN 20
                      ELSE IF tx.pool_name = "Raydium" THEN 15 ELSE 10
            pair   == IF <<tx.token_in, tx.token_out>> = <<"SOL", "USDC">> THEN 20
                      ELSE IF <<tx.token_in, tx.token_out>> = <<"USDC", "BONK">> THEN 30
                      ELSE 10
        IN  /\ IsOk(call_result.val)
            /\ (d.action = "enter") <=> (d.opportunity_score > 70)
            /\ d.action \in {"enter", "skip"}
            /\ d.risk_level = IF d.opportunity_score > 85 THEN "high"
                              ELSE IF d.opportunity_score > 75 THEN "medium"
                              ELSE "low"
            /\ d.opportunity_score \in 0..100
            /\ random <= 20
            /\ \E size \in 0..40, slip \in 0..30 :
                   /\ 250 * size = IF tx.amount_in < 10000 THEN tx.amount_in ELSE 10000
                   /\ 10 * slip = IF tx.slippage < 100 THEN 3 * tx.slippage ELSE 300
                   /\ d.opportunity_score =
                          IF size + slip + venue + pair + random < 100
                          THEN size + slip + venue + pair + random
                          ELSE 100

\* The heuristic scored a swap at exactly 0.85: it enters at medium risk.
C28_Witness ==
    /\ HeuristicAnswered
    /\ call_result.val.val.opportunity_score = 85
    /\ call_result.val.val.action = "enter"
    /\ call_result.val.val.risk_level = "medium"

\* C29: every AgentDecision evaluate_opportunity returns, from the remote
\* service or from the heuristic fallback, has opportunity_score in [0,1],
\* action in {enter, skip} and risk_level in {low, medium, high}.
C29_AgentDecisionWellFormed ==
    (Called("evaluate_opportunity") /\ IsOk(call_result.val)) =>
        LET d == call_result.val.val
        IN  /\ d.opportunity_score \in 0..100
            /\ d.action \in {"enter", "skip"}
            /\ d.risk_level \in {"low", "medium", "high"}

\* C30: the heuristic fallback is reproducible: its random term comes from a
\* seeded generator held by the agent, so the AgentDecision it returns for a
\* transaction (score, action, risk_level) is the same whatever the ambient
\* random source would have drawn, and evaluating the transaction again
\* returns the same decision.
C30_HeuristicReproducible ==
    HeuristicAnswered =>
        \A draw \in RandomFactors :
            call_result.val.val =
                simulate_agent_decision(call_args.val.transaction, draw)

\* C31: the slippage of a normalized swap record is |expected_out -
\* actual_out| / expected_out when an expected-output hint exists and is
\* positive, and the default 0.01 when the hint is absent or zero; it is
\* never negative and nothing is divided by zero.  In basis points, cut:
\* slippage * expected <= 10000 * |expected - actual| < (slippage + 1) * expected.
C31_SlippageOfRecord ==
    /\ (Called("process_transaction") /\ IsSome(call_args.val.tx.swap_info)) =>
           LET sw       == call_args.val.tx.swap_info.val
               record   == call_result.val.val
               expected == sw.expected_out.val \div 10000
               actual   == sw.amount_out \div 10000
               diff     == IF expected > actual THEN expected - actual
                           ELSE actual - expected
           IN  /\ IsSome(call_result.val)
               /\ record.slippage >= 0
               /\ record.estimated_amount_out = actual
               /\ IF IsSome(sw.expected_out) /\ sw.expected_out.val > 0
                  THEN /\ record.slippage * expected <= 10000 * diff
                       /\ 10000 * diff < (record.slippage + 1) * expected
                  ELSE record.slippage = 100
    /\ Called("calculate_slippage") =>
           LET expected == call_args.val.expected
               actual   == call_args.val.actual
               diff     == IF expected.val > actual THEN expected.val - actual
                           ELSE actual - expected.val
           IN  /\ call_result.val >= 0
               /\ IF IsSome(expected) /\ expected.val > 0
                  THEN /\ call_result.val * expected.val <= 10000 * diff
                       /\ 10000 * diff < (call_result.val + 1) * expected.val
                  ELSE call_result.val = 100

\* A swap that returned 2.1 USDC against a hint of 2.0 was normalized with a
\* slippage of 5%.
C31_Witness ==
    /\ Called("process_transaction")
    /\ IsSome(call_args.val.tx.swap_info)
    /\ call_args.val.tx.swap_info.val.expected_out = Some(2000000)
    /\ call_args.val.tx.swap_info.val.amount_out = 2100000
    /\ call_result.val.val.slippage = 500

\* seq is an initial part of longer.
IsPrefix(seq, longer) ==
    /\ Len(seq) <= Len(longer)
    /\ SubSeq(longer, 1, Len(seq)) = seq

\* C32: the trade log round-trips: starting from no log file, after any n >= 0
\* successful log_trade calls get_trade_history returns exactly those n
\* records in append order, and log_trade never rewrites or removes an
\* earlier record: what was written stays the beginning of the file.
C32_TradeLogRoundTrip ==
    /\ [](get_trade_history(log_file) = Ok(trades))
    /\ [](Called("get_trade_history") => call_result = Some(Ok(trades)))
    /\ [](log_file = None <=> trades = << >>)
    /\ [][/\ IsPrefix(trades, trades')
          /\ log_file # None => /\ log_file' # None
                                 /\ IsPrefix(log_file.val, log_file'.val)]_vars

\* The history read back after three appends, a failed trade among them.
C32_Witness ==
    /\ Called("get_trade_history")
    /\ Len(trades) = 3
    /\ trades[1] # trades[2]
    /\ trades[3].success = FALSE
    /\ call_result = Some(Ok(trades))

\* C33: analyze_risk returns a risk level in {1, 2, 3} for every transaction
\* and every present or absent sentiment and market snapshot, and
\* RiskAnalyzer::new clamps the configured tolerance into 1..3, so
\* is_within_risk_tolerance(r) is exactly r <= clamp(tolerance, 1, 3).
C33_RiskLevelInRange ==
    /\ Called("analyze_risk") =>
           /\ IsSome(call_result.val)
           /\ call_result.val.val \in {1, 2, 3}
    /\ Called("is_within_risk_tolerance") =>
           /\ RiskAnalyzer_new(call_args.val.risk_tolerance).risk_tolerance \in 1..3
           /\ call_result.val =
                  (call_args.val.risk_level
                       <= Clamp(call_args.val.risk_tolerance, 1, 3))

\* The signed sum of the adjustments analyze_risk applies to the base level.
SumOfAdjustments(tx, sentiment_data, market) ==
    SizeAdjustment(tx) + SlippageAdjustment(tx)
        + SentimentAdjustment(sentiment_data) + VolatilityAdjustment(tx, market)

\* C34: analyze_risk equals clamp(2 + sum of adjustments, 1, 3) with the sum
\* taken over signed integers: the running u8 value never goes below 0, so a
\* transaction with amount_in < 10, slippage < 0.01 and sentiment_score > 0.7
\* returns 1, and a call with one more risk-lowering signal than another never
\* returns a higher level.
C34_RiskLevelSignedSum ==
    Called("analyze_risk") =>
        LET args == call_args.val
        IN  /\ call_result.val =
                   Some(Clamp(2 + SumOfAdjustments(args.transaction, args.sentiment,
                                                   args.market_data), 1, 3))
            /\ \A tx \in RiskTransactions, sentiment_data \in RiskSentiments,
                  market \in RiskMarkets :
                   ( /\ SizeAdjustment(tx) <= SizeAdjustment(args.transaction)
                     /\ SlippageAdjustment(tx) <= SlippageAdjustment(args.transaction)
                     /\ SentimentAdjustment(sentiment_data)
                            <= SentimentAdjustment(args.sentiment)
                     /\ VolatilityAdjustment(tx, market)
                            <= VolatilityAdjustment(args.transaction, args.market_data) )
                   => LET lower == analyze_risk(RiskAnalyzer_new(args.risk_tolerance),
                                                tx, sentiment_data, market,
                                                args.overflow_checks)
                      IN  /\ IsSome(lower)
                          /\ IsSome(call_result.val)
                          /\ lower.val <= call_result.val.val

\* The strategies DecisionMaker names.
DecisionMakerStrategies == {"sandwich", "snipe", "arbitrage"}

\* C35: every TradeDecision emitted by DecisionMaker has strategy sandwich,
\* snipe or arbitrage, never sandwich_front or sandwich_back; so no decision of
\* the pipeline is executed through the priority-fee path: the router is never
\* asked for swap_with_priority, and a sandwich decision goes through swap.
C35_NoPriorityPath ==
    /\ IsSome(trade_decision) =>
           /\ trade_decision.val.strategy \in DecisionMakerStrategies
           /\ trade_decision.val.strategy \notin SandwichLegs
    /\ \A i \in 1..Len(router_calls) : router_calls[i] # "swap_with_priority"
    /\ ( /\ ~simulation_mode
         /\ IsSome(tx_signature)
         /\ IsSome(trade_decision) ) => Last(router_calls) = "swap"

\* A sandwich decision submitted through the standard swap.
C35_Witness ==
    /\ ~simulation_mode
    /\ IsSome(trade_decision)
    /\ trade_decision.val.strategy = "sandwich"
    /\ IsSome(tx_signature)
    /\ router_calls # << >>
    /\ Last(router_calls) = "swap"

\* C36: every item stream_dex_swaps yields (slot placeholder, reconnecting,
\* subscription_error, connection_error) has swap_info absent, so the
\* scanner's process_transaction returns Ok(None) for each: the scanner never
\* has a SwapTransaction to send, the queue is empty in every reachable state,
\* and the consumer never dequeues or processes a transaction.
C36_StreamYieldsNoSwap ==
    /\ IsSome(item) =>
           /\ item.val \in {SlotItem(None), ReconnectingItem, SubscriptionErrorItem,
                             ConnectionErrorItem}
           /\ ~IsSome(item.val.swap_info)
           /\ ScannerProcess(item.val) = None
    /\ pending = None
    /\ ~ENABLED ScannerSend
    /\ tx_channel = << >>
    /\ sent = 0
    /\ received = 0
    /\ transaction = None
    /\ inflight = 0
    /\ executor = <<"Idle">>
    /\ trades = << >>
    /\ consumer \in {"select", "exited"}

\* The scanner holds the marker of a failed connection, yielded after the
\* backoff sleep, and nothing was sent.
C36_Witness ==
    /\ scanner = "item"
    /\ item = Some(ConnectionErrorItem)
    /\ waits > 0
    /\ sent = 0
    /\ tx_channel = << >>

C38_MinOutWithinEstimate ==
    (Called("decide_on_scanned") /\ IsSome(call_result.val.decision)) =>
        LET tx == call_args.val.transaction
            made == call_result.val.decision.val
        IN  /\ tx.estimated_amount_out >= 0
            /\ tx.slippage >= 0
            /\ 0 <= made.expected_min_out
            /\ made.expected_min_out <= tx.estimated_amount_out * 20000
            /\ call_result.val.min_out_raw.val >= 0

\* The scorer of Config::default(): min_opportunity_score 0.8, max_risk_level 2.
DefaultScorer == OpportunityScorer_new(min_opportunity_score, max_risk_level)

\* C39: with the heuristic oracle and the default thresholds a transaction
\* passes should_execute only if its heuristic score s has 0.8 <= s <= 0.85:
\* every heuristic decision with s > 0.85 has risk_level "high" (3) and is
\* rejected by the risk gate, so no "snipe" decision is emitted.
C39_HeuristicDefaultWindow ==
    /\ \A tx \in ProcessTransactions, random_factor \in RandomFactors :
           LET decision == simulate_agent_decision(tx, random_factor)
               score    == calculate_score(DefaultScorer, tx, decision, None)
           IN  /\ should_execute(DefaultScorer, score) =>
                      (80 <= decision.opportunity_score /\ decision.opportunity_score <= 85)
               /\ decision.opportunity_score > 85 =>
                      /\ decision.risk_level = "high"
                      /\ score.risk_level = 3
                      /\ ~should_execute(DefaultScorer, score)
    /\ ( /\ ~agent_configured
         /\ opportunity_scorer = DefaultScorer
         /\ IsSome(trade_decision) ) =>
           /\ 80 <= opportunity_score.val.mev_score
           /\ opportunity_score.val.mev_score <= 85
           /\ agent_decision.val.risk_level # "high"
           /\ trade_decision.val.strategy # "snipe"

\* The heuristic scored the calm swap 0.85, medium risk: it passed the default
\* gates as an arbitrage and was executed.
C39_Witness ==
    /\ ~agent_configured
    /\ opportunity_scorer = DefaultScorer
    /\ transaction = Some(CalmSwap)
    /\ IsSome(trade_decision)
    /\ opportunity_score.val.mev_score = 85
    /\ opportunity_score.val.risk_level = 2
    /\ trade_decision.val.strategy = "arbitrage"
    /\ IsSome(tx_signature)

\* The risk_level strings calculate_score tells apart.
KnownRiskStrings == {"low", "medium", "high"}

\* Remote decisions whose risk_level is none of them.
UnknownRiskRemotes ==
    { remote \in ProcessRemotes :
          /\ remote.kind = "decision"
          /\ remote.decision.risk_level \notin KnownRiskStrings }

\* C40: an AgentDecision whose risk_level string is not exactly "low",
\* "medium" or "high" is scored risk 0 and passes the risk gate of
\* should_execute for every configured max_risk_level; with action "enter"
\* and sufficient score and profitability it yields a TradeDecision with
\* risk_level 0, which goes on to simulation and execution.
C40_UnknownRiskPassesGate ==
    /\ UnknownRiskRemotes # {}
    /\ \A remote \in UnknownRiskRemotes, tx \in ProcessTransactions, max_risk \in 0..3 :
           LET self  == OpportunityScorer_new(min_opportunity_score, max_risk)
               score == calculate_score(self, tx, remote.decision, None)
           IN  /\ score.risk_level = 0
               /\ score.mev_score >= min_opportunity_score => should_execute(self, score)
    /\ ( /\ consumer = "evaluate"
         /\ agent_configured
         /\ Profitability(transaction.val) >= decision_maker.min_profitability ) =>
           \A remote \in UnknownRiskRemotes :
               ( /\ remote.decision.action = "enter"
                 /\ remote.decision.opportunity_score
                        >= opportunity_scorer.min_opportunity_score ) =>
                   ENABLED ( /\ EvaluateDone(remote, 0)
                             /\ consumer' = "notify_detected" )
    /\ ( /\ IsSome(agent_decision)
         /\ agent_decision.val.risk_level \notin KnownRiskStrings ) =>
           /\ opportunity_score.val.risk_level = 0
           /\ IsSome(trade_decision)
           /\ trade_decision.val.risk_level = 0
           /\ \/ consumer \in {"notify_detected", "simulate"}
              \/ \E i \in 1..Len(executor) : executor[i] = "Simulating"

\* A decision the remote oracle rated "extreme" was committed through the
\* router by a scorer configured with max_risk_level 0.
C40_Witness ==
    /\ ~simulation_mode
    /\ opportunity_scorer.max_risk_level = 0
    /\ IsSome(agent_decision)
    /\ agent_decision.val.risk_level = "extreme"
    /\ IsSome(trade_decision)
    /\ trade_decision.val.risk_level = 0
    /\ Last(executor) = "Committed"
    /\ Last(router_calls) = "swap"
    /\ IsSome(tx_signature)

=============================================================================
